---- MODULE Spec2Model ----
(***************************************************************************)
(* Model of the UBA library (GianGuaz256/UBA): address derivation from a   *)
(* seed under a UbaConfig, and the generate / retrieve / update protocol   *)
(* that publishes address collections as Nostr events.                     *)
(*                                                                         *)
(* Strings are sequences of one-character strings.  Option<T> is a         *)
(* sequence of length 0 (None) or 1 (Some).  Result<T> is a record with    *)
(* fields ok, val (an Option) and err (the UbaError variant name).         *)
(***************************************************************************)
EXTENDS Integers, Sequences, FiniteSets, TLC

VARIABLES
    cfg,      \* SpecDerive: the caller-owned UbaConfig being mutated
    gen,      \* SpecDerive: Option of the last generate_addresses result for cfg
    cfgOps,   \* SpecDerive: number of operations applied so far
    called,   \* SpecDerive: Option of the last method called on cfg: its name,
              \*       its arguments, the config before it and what it returned
    calls,    \* Spec, SpecRace: per caller, the API call in progress (or idle)
    last,     \* Spec: Option of the record of the call that has just returned
    store,    \* Spec: the events the relays have seen, in order of arrival, each
              \*       with whether a relay still holds it
    pubLog,   \* Spec: history of what each accepted publish was asked to publish
    now,      \* Spec: the system clock, in seconds
    ops,      \* Spec: number of API calls of each kind started so far
    parsed,   \* SpecParse: Option of the last UBA string handled and its parse
    sealed,   \* SpecCrypt: Option of the last text handled and what became of it
    limiter   \* SpecLimit: Option of a RateLimiter, the clock and the calls made

deriveVars == <<cfg, gen, cfgOps, called>>
protoVars == <<calls, last, store, pubLog, now, ops>>
pureVars == <<parsed, sealed, limiter>>
vars == <<cfg, gen, cfgOps, called, calls, last, store, pubLog, now, ops, parsed, sealed, limiter>>

---------------------------------------------------------------------------
(* Bounds of the model *)

MaxCount == 2      \* largest address count a caller configures
MaxCfgOps == 2     \* operations applied to one config in SpecDerive
MaxGenerate == 1   \* generate calls started in one behaviour of Spec
MaxUpdate == 1     \* update calls started in one behaviour of Spec
MaxRetrieve == 1   \* retrieve calls started in one behaviour of Spec
MaxRaceUpdate == 2 \* update calls started in one behaviour of SpecRace
MaxTime == 1       \* the clock runs from 0 to MaxTime

---------------------------------------------------------------------------
(* Option and Result *)

None == <<>>
Some(x) == <<x>>
Ok(v) == [ok |-> TRUE, val |-> <<v>>, err |-> "none"]
Err(e) == [ok |-> FALSE, val |-> <<>>, err |-> e]

(* HashMap: a function on the set of its keys *)
EmptyMap == <<>>
MapInsert(m, k, v) == [x \in (DOMAIN m) \cup {k} |-> IF x = k THEN v ELSE m[x]]

---------------------------------------------------------------------------
(* Strings *)

IsWhitespace(c) == c \in {" ", "\t", "\n", "\r"}

RECURSIVE TrimStart(_)
TrimStart(s) ==
    IF s = <<>> THEN s
    ELSE IF IsWhitespace(Head(s)) THEN TrimStart(Tail(s)) ELSE s

RECURSIVE TrimEnd(_)
TrimEnd(s) ==
    IF s = <<>> THEN s
    ELSE IF IsWhitespace(s[Len(s)]) THEN TrimEnd(SubSeq(s, 1, Len(s) - 1)) ELSE s

trim(s) == TrimEnd(TrimStart(s))

DecDigit(n) == CASE n = 0 -> "0" [] n = 1 -> "1" [] n = 2 -> "2" [] n = 3 -> "3"
                 [] n = 4 -> "4" [] n = 5 -> "5" [] n = 6 -> "6" [] n = 7 -> "7"
                 [] n = 8 -> "8" [] n = 9 -> "9"

(* u64/u32/usize::to_string *)
RECURSIVE to_string(_)
to_string(n) == IF n < 10 THEN <<DecDigit(n)>> ELSE to_string(n \div 10) \o <<DecDigit(n % 10)>>

HexDigits == {"0", "1", "2", "3", "4", "5", "6", "7", "8", "9",
              "a", "b", "c", "d", "e", "f", "A", "B", "C", "D", "E", "F"}

HexVal(c) ==
    CASE c = "0" -> 0 [] c = "1" -> 1 [] c = "2" -> 2 [] c = "3" -> 3 [] c = "4" -> 4
      [] c = "5" -> 5 [] c = "6" -> 6 [] c = "7" -> 7 [] c = "8" -> 8 [] c = "9" -> 9
      [] c \in {"a", "A"} -> 10 [] c \in {"b", "B"} -> 11 [] c \in {"c", "C"} -> 12
      [] c \in {"d", "D"} -> 13 [] c \in {"e", "E"} -> 14 [] c \in {"f", "F"} -> 15

Repeat(pat, n) == [i \in 1..(n * Len(pat)) |-> pat[((i - 1) % Len(pat)) + 1]]

(* str::len: the number of bytes of the UTF-8 encoding *)
CharWidth(c) ==
    CASE c = "U+00E9" -> 2 [] c = "U+20AC" -> 3 [] c = "U+1F600" -> 4 [] OTHER -> 1

RECURSIVE ByteLen(_)
ByteLen(s) == IF s = <<>> THEN 0 ELSE CharWidth(Head(s)) + ByteLen(Tail(s))

(* hex::decode: the bytes two digits at a time; an odd number of bytes or  *)
(* a byte that is no hex digit is an error                                 *)
hex_decode(s) ==
    IF ByteLen(s) % 2 # 0 THEN Err("OddLength")
    ELSE IF \E i \in 1..Len(s) : s[i] \notin HexDigits THEN Err("InvalidHexCharacter")
    ELSE Ok([i \in 1..(Len(s) \div 2) |-> 16 * HexVal(s[2 * i - 1]) + HexVal(s[2 * i])])

---------------------------------------------------------------------------
(* types.rs: AddressType, UbaConfig *)

AddressTypes == {"P2PKH", "P2SH", "P2WPKH", "P2TR", "Liquid", "Lightning", "Nostr"}
BitcoinL1Types == {"P2PKH", "P2SH", "P2WPKH", "P2TR"}

DefaultUbaConfig ==
    [network |-> "Bitcoin",
     encrypt_data |-> FALSE,
     encryption_key |-> None,
     relay_timeout |-> 10,
     max_addresses_per_type |-> 1,
     address_counts |-> EmptyMap,
     custom_relays |-> None,
     address_filters |-> EmptyMap]

(* A relay URL, by what Url::parse makes of it: whether it parses, and the *)
(* scheme it then has.                                                     *)
RelayWss == [text |-> "wss://relay.example.com", parses |-> TRUE, scheme |-> "wss"]
RelayWs == [text |-> "ws://localhost:8080", parses |-> TRUE, scheme |-> "ws"]
RelayHttps == [text |-> "https://example.com", parses |-> TRUE, scheme |-> "https"]
RelayNotUrl == [text |-> "not a url", parses |-> FALSE, scheme |-> ""]

default_public_relays ==
    <<[text |-> "wss://relay.damus.io", parses |-> TRUE, scheme |-> "wss"],
      [text |-> "wss://nos.lol", parses |-> TRUE, scheme |-> "wss"],
      [text |-> "wss://relay.snort.social", parses |-> TRUE, scheme |-> "wss"],
      [text |-> "wss://nostr.wine", parses |-> TRUE, scheme |-> "wss"],
      [text |-> "wss://relay.nostr.band", parses |-> TRUE, scheme |-> "wss"],
      [text |-> "wss://nostr.mutinywallet.com", parses |-> TRUE, scheme |-> "wss"],
      [text |-> "wss://relay.primal.net", parses |-> TRUE, scheme |-> "wss"],
      [text |-> "wss://relay.nostrati.com", parses |-> TRUE, scheme |-> "wss"],
      [text |-> "wss://nostr.sethforprivacy.com", parses |-> TRUE, scheme |-> "wss"],
      [text |-> "wss://offchain.pub", parses |-> TRUE, scheme |-> "wss"],
      [text |-> "wss://relay.nostrplebs.com", parses |-> TRUE, scheme |-> "wss"],
      [text |-> "wss://purplepag.es", parses |-> TRUE, scheme |-> "wss"]>>

get_relay_urls(c) == IF c.custom_relays = None THEN default_public_relays ELSE c.custom_relays[1]

(* The config after each of the relay-list methods *)
set_custom_relays(c, relays) == [c EXCEPT !.custom_relays = Some(relays)]

add_custom_relay(c, relay_url) ==
    IF c.custom_relays # None
    THEN [c EXCEPT !.custom_relays = Some(Append(c.custom_relays[1], relay_url))]
    ELSE [c EXCEPT !.custom_relays = Some(<<relay_url>>)]

use_default_relays(c) == [c EXCEPT !.custom_relays = None]

KeyHexLen == 64    \* characters of an encryption key written in hex
KeyLen == 32       \* bytes of an encryption key

set_encryption_key_from_hex_propagate(c, key_hex) ==
    IF ByteLen(key_hex) # KeyHexLen THEN [config |-> c, result |-> Err("InvalidEncryptionKey")]
    ELSE IF ~hex_decode(key_hex).ok THEN [config |-> c, result |-> hex_decode(key_hex)]
    ELSE IF Len(hex_decode(key_hex).val[1]) # KeyLen
         THEN [config |-> c, result |-> Err("InvalidEncryptionKey")]
    ELSE [config |-> [c EXCEPT !.encryption_key = Some(hex_decode(key_hex).val[1])],
          result |-> Ok(<<>>)]

(* The config after the call, and what the call returned *)
set_encryption_key_from_hex(c, key_hex) ==
    IF ByteLen(key_hex) # KeyHexLen THEN [config |-> c, result |-> Err("InvalidEncryptionKey")]
    ELSE IF ~hex_decode(key_hex).ok THEN [config |-> c, result |-> Err("InvalidEncryptionKey")]
    ELSE IF Len(hex_decode(key_hex).val[1]) # KeyLen
         THEN [config |-> c, result |-> Err("InvalidEncryptionKey")]
    ELSE [config |-> [c EXCEPT !.encryption_key = Some(hex_decode(key_hex).val[1])],
          result |-> Ok(<<>>)]

set_address_count(c, t, n) == [c EXCEPT !.address_counts = MapInsert(@, t, n)]

get_address_count(c, t) ==
    IF t \in DOMAIN c.address_counts THEN c.address_counts[t] ELSE c.max_addresses_per_type

set_bitcoin_l1_counts(c, n) ==
    set_address_count(set_address_count(set_address_count(set_address_count(
        c, "P2PKH", n), "P2SH", n), "P2WPKH", n), "P2TR", n)

set_all_counts(c, n) ==
    set_address_count(set_address_count(set_address_count(
        set_bitcoin_l1_counts(c, n), "Liquid", n), "Lightning", n), "Nostr", n)

set_address_type_enabled_forget(c, t, b) ==
    [c EXCEPT !.address_filters = MapInsert(@, t, b),
              !.address_counts = IF b THEN @ ELSE [x \in (DOMAIN @) \ {t} |-> @[x]]]

set_address_type_enabled(c, t, b) == [c EXCEPT !.address_filters = MapInsert(@, t, b)]

is_address_type_enabled(c, t) ==
    IF t \in DOMAIN c.address_filters THEN c.address_filters[t] ELSE TRUE

set_bitcoin_l1_enabled(c, b) ==
    set_address_type_enabled(set_address_type_enabled(set_address_type_enabled(
        set_address_type_enabled(c, "P2PKH", b), "P2SH", b), "P2WPKH", b), "P2TR", b)

enable_bitcoin_l1(c) == set_bitcoin_l1_enabled(c, TRUE)
disable_bitcoin_l1(c) == set_bitcoin_l1_enabled(c, FALSE)

set_all_address_types_enabled(c, b) ==
    set_address_type_enabled(set_address_type_enabled(set_address_type_enabled(
        set_bitcoin_l1_enabled(c, b), "Liquid", b), "Lightning", b), "Nostr", b)

enable_all_address_types(c) == set_all_address_types_enabled(c, TRUE)
disable_all_address_types(c) == set_all_address_types_enabled(c, FALSE)

AllTypesInOrder == <<"P2PKH", "P2SH", "P2WPKH", "P2TR", "Liquid", "Lightning", "Nostr">>

get_enabled_address_types_listed(c) ==
    SelectSeq(AllTypesInOrder, LAMBDA t : t \in DOMAIN c.address_filters /\ c.address_filters[t])

get_enabled_address_types(c) ==
    SelectSeq(AllTypesInOrder, LAMBDA t : is_address_type_enabled(c, t))

---------------------------------------------------------------------------
(* types.rs: BitcoinAddresses *)

BitcoinAddresses_new(t) ==
    [addresses |-> EmptyMap, metadata |-> None, created_at |-> t, version |-> 1]

add_address(a, t, addr) ==
    [a EXCEPT !.addresses =
        IF t \in DOMAIN @ THEN [@ EXCEPT ![t] = Append(@, addr)]
        ELSE MapInsert(@, t, <<addr>>)]

is_empty(a) == DOMAIN a.addresses = {}

RECURSIVE SumLens(_, _)
SumLens(m, ks) ==
    IF ks = {} THEN 0
    ELSE LET k == CHOOSE x \in ks : TRUE IN Len(m[k]) + SumLens(m, ks \ {k})

len(a) == SumLens(a.addresses, DOMAIN a.addresses)

---------------------------------------------------------------------------
(* address.rs: AddressGenerator *)

(* A seed input, by the properties the parsers look at: whether it is a    *)
(* valid BIP39 mnemonic, whether its trimmed text is hex, how many bytes   *)
(* that hex decodes to, whether the untrimmed text is hex, its length in   *)
(* characters, and the entropy it stands for.                              *)
SeedMnemonic == [mnemonic |-> TRUE, hex |-> FALSE, rawhex |-> FALSE, nbytes |-> 0, length |-> 93, ent |-> "A"]
SeedHex32 == [mnemonic |-> FALSE, hex |-> TRUE, rawhex |-> TRUE, nbytes |-> 32, length |-> 64, ent |-> "B"]
SeedHex16 == [mnemonic |-> FALSE, hex |-> TRUE, rawhex |-> TRUE, nbytes |-> 16, length |-> 32, ent |-> "C"]
SeedGarbage == [mnemonic |-> FALSE, hex |-> FALSE, rawhex |-> FALSE, nbytes |-> 0, length |-> 19, ent |-> "D"]
Seeds == {SeedMnemonic, SeedHex32, SeedHex16, SeedGarbage}

derive_master_key(c, seed) ==
    IF seed.mnemonic THEN Ok([ent |-> seed.ent, network |-> c.network])
    ELSE IF ~seed.hex THEN Err("HexDecode")
    ELSE IF seed.nbytes # 32 THEN Err("InvalidSeed")
    ELSE Ok([ent |-> seed.ent, network |-> c.network])

(* The address rendered for the child key at <path>/i: a string that is    *)
(* determined by, and determines, the master key, the path and the index. *)
DeriveAddress(master, path, i) == <<path, master.ent, master.network>> \o to_string(i)

(* ChildNumber::from_normal_idx(index) is an error unless index < 2^31 *)
MaxNormalIdx == 2147483647
(* (i + 1000) as u32: the index of a Liquid address's blinding key *)
BlindingOffset == 1000

RECURSIVE DeriveLoop_inclusive(_, _, _, _, _, _)
DeriveLoop_inclusive(master, a, family, path, i, count) ==
    IF i > count THEN a
    ELSE DeriveLoop_inclusive(master, add_address(a, family, DeriveAddress(master, path, i)),
                              family, path, i + 1, count)

(* for i in 0..count { ... addresses.add_address(family, address) } *)
RECURSIVE DeriveLoop(_, _, _, _, _, _)
DeriveLoop(master, a, family, path, i, count) ==
    IF i >= count THEN a
    ELSE DeriveLoop(master, add_address(a, family, DeriveAddress(master, path, i)),
                    family, path, i + 1, count)

(* One family's loop with its `?`: the loop asks from_normal_idx for the   *)
(* indices 0..count-1 (and on the way for i + extra), so it returns the    *)
(* error at the first index refused exactly when count - 1 + extra exceeds *)
(* MaxNormalIdx, and otherwise adds its count addresses.                   *)
derive_family(master, r, family, path, count, extra) ==
    IF ~r.ok THEN r
    ELSE IF count - 1 > MaxNormalIdx - extra THEN Err("AddressGeneration")
    ELSE Ok(DeriveLoop(master, r.val[1], family, path, 0, count))

generate_legacy_addresses(c, master, r) ==
    derive_family(master, r, "P2PKH", "m/44'/0'/0'/0", get_address_count(c, "P2PKH"), 0)

generate_segwit_addresses(c, master, r) ==
    LET r1 == derive_family(master, r, "P2SH", "m/49'/0'/0'/0", get_address_count(c, "P2SH"), 0)
    IN derive_family(master, r1, "P2WPKH", "m/84'/0'/0'/0", get_address_count(c, "P2WPKH"), 0)

generate_taproot_addresses(c, master, r) ==
    derive_family(master, r, "P2TR", "m/86'/0'/0'/0", get_address_count(c, "P2TR"), 0)

(* On the Bitcoin network each address also derives a blinding key at      *)
(* index i + 1000                                                          *)
generate_liquid_addresses(c, master, r) ==
    derive_family(master, r, "Liquid", "m/84'/1776'/0'/0", get_address_count(c, "Liquid"),
                  IF c.network = "Bitcoin" THEN BlindingOffset ELSE 0)

generate_lightning_addresses(c, master, r) ==
    derive_family(master, r, "Lightning", "m/1017'/0'/0'", get_address_count(c, "Lightning"), 0)

generate_nostr_addresses(c, master, r) ==
    derive_family(master, r, "Nostr", "m/44'/1237'/0'/0", get_address_count(c, "Nostr"), 0)

get_derivation_paths ==
    <<"m/44'/0'/0'/0", "m/49'/0'/0'/0", "m/84'/0'/0'/0", "m/86'/0'/0'/0",
      "m/84'/1776'/0'/0", "m/1017'/0'/0'", "m/44'/1237'/0'/0">>

(* BitcoinAddresses::new() with the metadata generate_addresses sets *)
new_collection(label, t) ==
    [BitcoinAddresses_new(t) EXCEPT !.metadata =
        Some([label |-> label,
              description |-> Some("UBA generated address collection"),
              xpub |-> None,
              derivation_paths |-> Some(get_derivation_paths)])]

derive_all_partial(c, master, r) ==
    LET keep(prev, next) == IF next.ok THEN next ELSE prev
        a1 == keep(r, generate_legacy_addresses(c, master, r))
        a2 == keep(a1, generate_segwit_addresses(c, master, a1))
        a3 == keep(a2, generate_taproot_addresses(c, master, a2))
        a4 == keep(a3, generate_liquid_addresses(c, master, a3))
        a5 == keep(a4, generate_lightning_addresses(c, master, a4))
    IN keep(a5, generate_nostr_addresses(c, master, a5))

(* The six family generators of generate_addresses, each with its `?` *)
derive_all(c, master, r) ==
    LET a1 == generate_legacy_addresses(c, master, r)
        a2 == generate_segwit_addresses(c, master, a1)
        a3 == generate_taproot_addresses(c, master, a2)
        a4 == generate_liquid_addresses(c, master, a3)
        a5 == generate_lightning_addresses(c, master, a4)
    IN generate_nostr_addresses(c, master, a5)

generate_addresses_salted(c, seed, label, t) ==
    LET mk == derive_master_key(c, seed) IN
    IF ~mk.ok THEN mk
    ELSE derive_all(c, [mk.val[1] EXCEPT !.ent = <<@, t>>], Ok(new_collection(label, t)))

generate_addresses(c, seed, label, t) ==
    LET mk == derive_master_key(c, seed) IN
    IF ~mk.ok THEN mk
    ELSE derive_all(c, mk.val[1], Ok(new_collection(label, t)))

---------------------------------------------------------------------------
(* SpecDerive: a config under its mutators, and generate_addresses on it *)

Labels == {None, Some(<<"w">>)}

DeriveInit ==
    /\ cfg = DefaultUbaConfig
    /\ gen = None
    /\ cfgOps = 0
    /\ called = None

Mutate(op, args, c, result) ==
    /\ cfgOps < MaxCfgOps
    /\ cfg' = c
    /\ called' = Some([op |-> op, args |-> args, before |-> cfg, result |-> result])
    /\ gen' = None
    /\ cfgOps' = cfgOps + 1
    /\ UNCHANGED <<protoVars, pureVars>>

(* The counts a caller sets: small ones, and for Liquid the first count   *)
(* whose blinding keys from_normal_idx refuses                            *)
Counts == 0..MaxCount
TooManyLiquid == MaxNormalIdx - BlindingOffset + 2
CountsOf(t) == IF t = "Liquid" THEN Counts \cup {TooManyLiquid} ELSE Counts

SetAddressCount ==
    \E t \in AddressTypes : \E n \in CountsOf(t) :
        Mutate("set_address_count", <<t, n>>, set_address_count(cfg, t, n), Ok(<<>>))
SetBitcoinL1Counts ==
    \E n \in Counts : Mutate("set_bitcoin_l1_counts", <<n>>, set_bitcoin_l1_counts(cfg, n), Ok(<<>>))
SetAllCounts == \E n \in Counts : Mutate("set_all_counts", <<n>>, set_all_counts(cfg, n), Ok(<<>>))
(* config.max_addresses_per_type = n *)
SetMaxAddressesPerType ==
    \E n \in 0..MaxCount :
        Mutate("max_addresses_per_type", <<n>>, [cfg EXCEPT !.max_addresses_per_type = n], Ok(<<>>))
SetAddressTypeEnabled ==
    \E t \in AddressTypes, b \in BOOLEAN :
        Mutate("set_address_type_enabled", <<t, b>>, set_address_type_enabled(cfg, t, b), Ok(<<>>))
EnableBitcoinL1 == Mutate("enable_bitcoin_l1", <<>>, enable_bitcoin_l1(cfg), Ok(<<>>))
DisableBitcoinL1 == Mutate("disable_bitcoin_l1", <<>>, disable_bitcoin_l1(cfg), Ok(<<>>))
EnableAllAddressTypes ==
    Mutate("enable_all_address_types", <<>>, enable_all_address_types(cfg), Ok(<<>>))
DisableAllAddressTypes ==
    Mutate("disable_all_address_types", <<>>, disable_all_address_types(cfg), Ok(<<>>))

(* The strings a caller hands to set_encryption_key_from_hex: 64 hex       *)
(* digits in either case, too few, too many, an odd number, a digit that   *)
(* is none, and 64 bytes or 64 characters that include a two-byte one      *)
KeyLower == Repeat(<<"0", "1", "2", "3", "4", "5", "6", "7", "8", "9", "a", "b", "c", "d", "e", "f">>, 4)
KeyUpper == Repeat(<<"0", "1", "2", "3", "4", "5", "6", "7", "8", "9", "A", "B", "C", "D", "E", "F">>, 4)
KeyOther == Repeat(<<"f", "E">>, KeyLen)
KeyHexTexts ==
    {KeyLower, KeyUpper, KeyOther,
     <<>>, Repeat(<<"a">>, KeyHexLen - 1), Repeat(<<"a">>, KeyHexLen + 1),
     Repeat(<<"a">>, KeyHexLen - 2), Repeat(<<"a">>, KeyHexLen + 2),
     Repeat(<<"a">>, KeyHexLen - 1) \o <<"g">>,
     <<" ">> \o Repeat(<<"a">>, KeyHexLen - 1),
     Repeat(<<"a">>, KeyHexLen - 2) \o <<"U+00E9">>,
     Repeat(<<"a">>, KeyHexLen - 1) \o <<"U+00E9">>}

SetCustomRelays ==
    \E relays \in {<<>>, <<RelayWss, RelayWs>>} :
        Mutate("set_custom_relays", <<relays>>, set_custom_relays(cfg, relays), Ok(<<>>))
AddCustomRelay ==
    \E u \in {RelayWss, RelayNotUrl} :
        Mutate("add_custom_relay", <<u>>, add_custom_relay(cfg, u), Ok(<<>>))
UseDefaultRelays == Mutate("use_default_relays", <<>>, use_default_relays(cfg), Ok(<<>>))

SetEncryptionKeyFromHex ==
    \E key_hex \in KeyHexTexts :
        Mutate("set_encryption_key_from_hex", <<key_hex>>,
               set_encryption_key_from_hex(cfg, key_hex).config,
               set_encryption_key_from_hex(cfg, key_hex).result)

(* generate_addresses(seed, label) on the config, at second t *)
GenerateAddresses ==
    /\ gen = None
    /\ \E seed \in Seeds, label \in Labels, t \in 0..MaxTime :
          gen' = Some([seed |-> seed, label |-> label, t |-> t,
                       res |-> generate_addresses(cfg, seed, label, t),
                       again |-> None])
    /\ UNCHANGED <<cfg, cfgOps, called>>
    /\ UNCHANGED <<protoVars, pureVars>>

(* The same call once more, at second t *)
GenerateAgain ==
    /\ gen # None /\ gen[1].again = None
    /\ \E t \in 0..MaxTime :
          gen' = Some([gen[1] EXCEPT !.again =
                          Some([t |-> t,
                                res |-> generate_addresses(cfg, gen[1].seed, gen[1].label, t)])])
    /\ UNCHANGED <<cfg, cfgOps, called>>
    /\ UNCHANGED <<protoVars, pureVars>>

DeriveNext ==
    \/ SetAddressCount
    \/ SetBitcoinL1Counts
    \/ SetAllCounts
    \/ SetMaxAddressesPerType
    \/ SetAddressTypeEnabled
    \/ EnableBitcoinL1
    \/ DisableBitcoinL1
    \/ EnableAllAddressTypes
    \/ DisableAllAddressTypes
    \/ SetEncryptionKeyFromHex
    \/ SetCustomRelays
    \/ AddCustomRelay
    \/ UseDefaultRelays
    \/ GenerateAddresses
    \/ GenerateAgain

---------------------------------------------------------------------------
(* uba.rs: input validation and the UBA string *)

(* let final_relay_urls = if relay_urls.is_empty() { config.get_relay_urls() } else { relay_urls } *)
final_relay_urls(relay_urls, c) == IF relay_urls = <<>> THEN get_relay_urls(c) ELSE relay_urls

RECURSIVE validate_each_url(_)
validate_each_url(urls) ==
    IF urls = <<>> THEN Ok(<<>>)
    ELSE IF ~Head(urls).parses THEN Err("InvalidRelayUrl")
    ELSE IF Head(urls).scheme # "ws" /\ Head(urls).scheme # "wss" THEN Err("InvalidRelayUrl")
    ELSE validate_each_url(Tail(urls))

validate_relay_urls(urls) ==
    IF urls = <<>> THEN Err("Config") ELSE validate_each_url(urls)

AsciiAlphanumeric ==
    {"0", "1", "2", "3", "4", "5", "6", "7", "8", "9",
     "a", "b", "c", "d", "e", "f", "g", "h", "i", "j", "k", "l", "m",
     "n", "o", "p", "q", "r", "s", "t", "u", "v", "w", "x", "y", "z",
     "A", "B", "C", "D", "E", "F", "G", "H", "I", "J", "K", "L", "M",
     "N", "O", "P", "Q", "R", "S", "T", "U", "V", "W", "X", "Y", "Z"}

NostrIdLen == 64
MaxLabelLen == 100

validate_nostr_id_len(id) ==
    IF Len(id) # NostrIdLen THEN Err("InvalidUbaFormat") ELSE Ok(<<>>)

validate_nostr_id(id) ==
    IF Len(id) # NostrIdLen THEN Err("InvalidUbaFormat")
    ELSE IF ~(\A i \in 1..Len(id) : id[i] \in HexDigits) THEN Err("InvalidUbaFormat")
    ELSE Ok(<<>>)

validate_label_any(label) == Ok(<<>>)

validate_label(label) ==
    IF label = <<>> THEN Err("InvalidLabel")
    ELSE IF Len(label) > MaxLabelLen THEN Err("InvalidLabel")
    ELSE IF ~(\A i \in 1..Len(label) : label[i] \in AsciiAlphanumeric \cup {"-", "_"})
         THEN Err("InvalidLabel")
    ELSE Ok(<<>>)

UbaPrefix == <<"U", "B", "A", ":">>
LabelParam == <<"&", "l", "a", "b", "e", "l", "=">>

starts_with(s, p) == Len(s) >= Len(p) /\ SubSeq(s, 1, Len(p)) = p

(* str::find: Some(0-based position of the first c) or None *)
find(s, c) ==
    IF \E i \in 1..Len(s) : s[i] = c
    THEN Some((CHOOSE i \in 1..Len(s) : s[i] = c /\ \A j \in 1..(i - 1) : s[j] # c) - 1)
    ELSE None

(* str::split(c), collected *)
RECURSIVE split(_, _)
split(s, c) ==
    LET p == find(s, c) IN
    IF p = None THEN <<s>>
    ELSE <<SubSeq(s, 1, p[1])>> \o split(SubSeq(s, p[1] + 2, Len(s)), c)

(* The characters with codes 32 to 126, in order (code 96 by its name) *)
PrintableAscii ==
    <<" ", "!", "\"", "#", "$", "%", "&", "'", "(", ")", "*", "+", ",", "-", ".", "/",
      "0", "1", "2", "3", "4", "5", "6", "7", "8", "9", ":", ";", "<", "=", ">", "?",
      "@", "A", "B", "C", "D", "E", "F", "G", "H", "I", "J", "K", "L", "M", "N", "O",
      "P", "Q", "R", "S", "T", "U", "V", "W", "X", "Y", "Z", "[", "\\", "]", "^", "_",
      "BACKTICK", "a", "b", "c", "d", "e", "f", "g", "h", "i", "j", "k", "l", "m", "n", "o",
      "p", "q", "r", "s", "t", "u", "v", "w", "x", "y", "z", "{", "|", "}", "~">>

(* The character with a given code below 128; a control character other   *)
(* than tab, line feed and carriage return is written by its name          *)
AsciiChar(b) ==
    IF b >= 32 /\ b <= 126 THEN PrintableAscii[b - 31]
    ELSE CASE b = 9 -> "\t" [] b = 10 -> "\n" [] b = 13 -> "\r"
           [] b = 0 -> "NUL" [] b = 127 -> "DEL" [] OTHER -> "CTL"

(* The character a well-formed multi-byte sequence encodes, written by its *)
(* name                                                                    *)
Utf8Char(bytes) ==
    CASE bytes = <<195, 169>> -> "U+00E9"
      [] bytes = <<226, 130, 172>> -> "U+20AC"
      [] bytes = <<240, 159, 152, 128>> -> "U+1F600"
      [] OTHER -> "U+"

(* urlencoding::decode_binary: %XY with two hex digits becomes the byte    *)
(* XY; any other text, a '%' without two hex digits after it included, is  *)
(* copied.  The two digits of an escape are never a '%', so whether an     *)
(* escape starts at a position can be read off the three characters there. *)
(* A unit of the result is a copied character or a decoded byte.           *)
IsEscape(s, i) ==
    /\ i >= 1 /\ i + 2 <= Len(s)
    /\ s[i] = "%" /\ s[i + 1] \in HexDigits /\ s[i + 2] \in HexDigits

decode_binary(s) ==
    LET unit(i) == IF IsEscape(s, i)
                   THEN [used |-> TRUE, byte |-> TRUE, c |-> "",
                         b |-> 16 * HexVal(s[i + 1]) + HexVal(s[i + 2])]
                   ELSE [used |-> ~(IsEscape(s, i - 1) \/ IsEscape(s, i - 2)),
                         byte |-> FALSE, c |-> s[i], b |-> 0]
    IN SelectSeq([i \in 1..Len(s) |-> unit(i)], LAMBDA u : u.used)

(* The number of continuation bytes a leading byte asks for, or -1 *)
Utf8Width(b) ==
    IF b < 128 THEN 0
    ELSE IF b >= 194 /\ b <= 223 THEN 1
    ELSE IF b >= 224 /\ b <= 239 THEN 2
    ELSE IF b >= 240 /\ b <= 244 THEN 3
    ELSE -1

(* The values the byte after a leading byte may take *)
Utf8Second(b) ==
    IF b = 224 THEN 160..191
    ELSE IF b = 237 THEN 128..159
    ELSE IF b = 240 THEN 144..191
    ELSE IF b = 244 THEN 128..143
    ELSE 128..191

IsContinuation(u, k) == k >= 1 /\ k <= Len(u) /\ u[k].byte /\ u[k].b \in 128..191

(* Unit k begins a well-formed sequence: a copied character, a byte below  *)
(* 128, or a leading byte followed by the continuation bytes it asks for   *)
BeginsUtf8(u, k) ==
    /\ k >= 1 /\ k <= Len(u)
    /\ \/ ~u[k].byte
       \/ /\ Utf8Width(u[k].b) >= 0
          /\ \A i \in 1..Utf8Width(u[k].b) : IsContinuation(u, k + i)
          /\ Utf8Width(u[k].b) >= 1 => u[k + 1].b \in Utf8Second(u[k].b)

(* Unit k continues the sequence begun d units before it *)
ContinuesUtf8(u, k) ==
    /\ IsContinuation(u, k)
    /\ \E d \in 1..3 :
          /\ k - d >= 1 /\ u[k - d].byte /\ Utf8Width(u[k - d].b) >= d
          /\ BeginsUtf8(u, k - d)

(* String::from_utf8 on the units: every decoded byte must begin or        *)
(* continue a well-formed sequence                                         *)
from_utf8(u) ==
    IF \E k \in 1..Len(u) : ~ContinuesUtf8(u, k) /\ ~(BeginsUtf8(u, k) /\ ~IsContinuation(u, k))
    THEN Err("InvalidUbaFormat")
    ELSE LET ch(k) == IF ~u[k].byte THEN [first |-> TRUE, c |-> u[k].c]
                      ELSE IF IsContinuation(u, k) THEN [first |-> FALSE, c |-> ""]
                      ELSE IF Utf8Width(u[k].b) = 0 THEN [first |-> TRUE, c |-> AsciiChar(u[k].b)]
                      ELSE [first |-> TRUE,
                            c |-> Utf8Char([i \in 1..(Utf8Width(u[k].b) + 1) |-> u[k + i - 1].b])]
             firsts == SelectSeq([k \in 1..Len(u) |-> ch(k)], LAMBDA x : x.first)
         IN Ok([k \in 1..Len(firsts) |-> firsts[k].c])

(* urlencoding::decode(value).map_err(|_| InvalidUbaFormat) *)
url_decode(s) == from_utf8(decode_binary(s))

RECURSIVE parse_pairs_strict(_)
parse_pairs_strict(pairs) ==
    IF pairs = <<>> THEN Ok(None)
    ELSE LET pair == Head(pairs)
             eq == find(pair, "=")
         IN IF eq # None /\ SubSeq(pair, 1, eq[1]) = <<"l", "a", "b", "e", "l">>
            THEN LET decoded == url_decode(SubSeq(pair, eq[1] + 2, Len(pair)))
                 IN IF ~decoded.ok THEN decoded ELSE Ok(Some(decoded.val[1]))
            ELSE IF eq # None THEN Err("InvalidUbaFormat")
            ELSE parse_pairs_strict(Tail(pairs))

RECURSIVE parse_pairs(_)
parse_pairs(pairs) ==
    IF pairs = <<>> THEN Ok(None)
    ELSE LET pair == Head(pairs)
             eq == find(pair, "=")
         IN IF eq # None /\ SubSeq(pair, 1, eq[1]) = <<"l", "a", "b", "e", "l">>
            THEN LET decoded == url_decode(SubSeq(pair, eq[1] + 2, Len(pair)))
                 IN IF ~decoded.ok THEN decoded ELSE Ok(Some(decoded.val[1]))
            ELSE parse_pairs(Tail(pairs))

parse_query_params(query_string) == parse_pairs(split(query_string, "&"))

parse_uba(uba) ==
    IF ~starts_with(uba, UbaPrefix) THEN Err("InvalidUbaFormat")
    ELSE
        LET content == SubSeq(uba, 5, Len(uba))
            query_start == find(content, "&")
        IN IF query_start # None
           THEN LET nostr_id == SubSeq(content, 1, query_start[1])
                    label == parse_query_params(SubSeq(content, query_start[1] + 2, Len(content)))
                IN IF ~label.ok THEN label
                   ELSE IF ~validate_nostr_id(nostr_id).ok THEN validate_nostr_id(nostr_id)
                   ELSE Ok([nostr_id |-> nostr_id, label |-> label.val[1]])
           ELSE IF ~validate_nostr_id(content).ok THEN validate_nostr_id(content)
                ELSE Ok([nostr_id |-> content, label |-> None])

(* bindings/wasm: the loop of parse_uba_internal over parts[1..]: every    *)
(* label parameter is decoded and the last one is kept                     *)
RECURSIVE parse_parts(_, _)
parse_parts(parts, label) ==
    IF parts = <<>> THEN Ok(label)
    ELSE LET part == Head(parts)
             eq == find(part, "=")
         IN IF eq # None /\ SubSeq(part, 1, eq[1]) = <<"l", "a", "b", "e", "l">>
            THEN LET decoded_label == url_decode(SubSeq(part, eq[1] + 2, Len(part)))
                 IN IF ~decoded_label.ok THEN Err("InvalidUbaFormat")
                    ELSE parse_parts(Tail(parts), Some(decoded_label.val[1]))
            ELSE parse_parts(Tail(parts), label)

(* bindings/wasm: parse_uba_internal *)
parse_uba_internal(uba) ==
    IF ~starts_with(uba, UbaPrefix) THEN Err("InvalidUbaFormat")
    ELSE
        LET content == SubSeq(uba, 5, Len(uba))
            parts == split(content, "&")
            nostr_id == parts[1]
        IN IF Len(nostr_id) # NostrIdLen \/ ~(\A i \in 1..Len(nostr_id) : nostr_id[i] \in HexDigits)
           THEN Err("InvalidUbaFormat")
           ELSE LET label == parse_parts(Tail(parts), None)
                IN IF ~label.ok THEN label
                   ELSE Ok([nostr_id |-> nostr_id, label |-> label.val[1]])

format_uba_question(event_id, label) ==
    IF label # None THEN UbaPrefix \o event_id \o <<"?", "l", "a", "b", "e", "l", "=">> \o label[1]
    ELSE UbaPrefix \o event_id

(* format!("UBA:{}&label={}", event_id, label) / format!("UBA:{}", event_id) *)
format_uba(event_id, label) ==
    IF label # None THEN UbaPrefix \o event_id \o LabelParam \o label[1]
    ELSE UbaPrefix \o event_id

---------------------------------------------------------------------------
(* encryption.rs *)

NumKeyOrders == 2   \* key orders a serialized HashMap of several families may take

(* A string, by what the functions of this file make of it: whether it is  *)
(* standard base64, and then whether it decodes to fewer than 12 bytes     *)
(* (short), under which key and nonce the bytes after the first 12 were    *)
(* sealed (key "" when under none), whether they still are as sealed       *)
(* (intact), whether the sealed bytes are UTF-8 (utf8), and the sealed     *)
(* text or bytes (pt).  A string that is not base64 has its text in pt.    *)
(* A text is a record: [raw] for text that is not JSON, [ord, body] for    *)
(* the JSON of a collection, [bytes] for bytes that are not UTF-8.         *)
Text(x) ==
    [b64 |-> FALSE, short |-> FALSE, key |-> "", nonce |-> 0, intact |-> FALSE,
     utf8 |-> TRUE, pt |-> x]

(* serde_json::to_string(addresses): the JSON text of a collection.  The   *)
(* families are written in the HashMap's iteration order, ord.             *)
to_json(a, ord) == Text([ord |-> ord, body |-> a])

KeyOrders(a) == IF Cardinality(DOMAIN a.addresses) > 1 THEN 0..(NumKeyOrders - 1) ELSE {0}

(* serde_json::from_str::<BitcoinAddresses>: only the JSON of a collection *)
(* parses; base64 text and other text do not                              *)
from_json(text) ==
    IF text.b64 \/ "body" \notin DOMAIN text.pt THEN Err("Json") ELSE Ok(text.pt.body)

encrypt_untagged(key, nonce, data) ==
    Ok([b64 |-> TRUE, short |-> FALSE, key |-> key, nonce |-> nonce, intact |-> FALSE,
        utf8 |-> TRUE, pt |-> data])

(* UbaEncryption::encrypt: base64(nonce || AEAD(key, nonce, data)) *)
encrypt(key, nonce, data) ==
    Ok([b64 |-> TRUE, short |-> FALSE, key |-> key, nonce |-> nonce, intact |-> TRUE,
        utf8 |-> TRUE, pt |-> data])

decrypt_lossy(key, data) ==
    IF ~data.b64 THEN Err("Encryption")
    ELSE IF data.short THEN Err("Encryption")
    ELSE IF data.key # key \/ ~data.intact THEN Err("Encryption")
    ELSE IF ~data.utf8 THEN Ok(Text(data.pt))
    ELSE Ok(data.pt)

(* UbaEncryption::decrypt: the text must be base64 of at least 12 bytes,   *)
(* the tag must verify under the key, and the plaintext must be UTF-8      *)
decrypt(key, data) ==
    IF ~data.b64 THEN Err("Encryption")
    ELSE IF data.short THEN Err("Encryption")
    ELSE IF data.key # key \/ ~data.intact THEN Err("Encryption")
    ELSE IF ~data.utf8 THEN Err("Encryption")
    ELSE Ok(data.pt)

encrypt_if_enabled(json_data, encryption_key, nonce) ==
    IF encryption_key # None THEN encrypt(encryption_key[1], nonce, json_data)
    ELSE Ok(json_data)

decrypt_if_needed_strict(data, encryption_key) ==
    IF encryption_key # None THEN decrypt(encryption_key[1], data) ELSE Ok(data)

decrypt_if_needed(data, encryption_key) ==
    IF encryption_key # None
    THEN IF decrypt(encryption_key[1], data).ok THEN decrypt(encryption_key[1], data) ELSE Ok(data)
    ELSE Ok(data)

---------------------------------------------------------------------------
(* SpecCrypt: strings through encrypt, decrypt and the two wrappers *)

MaxNonce == 2      \* nonces an encryption may draw: 1..MaxNonce

EncryptionKeys == {"K1", "K2"}
Nonces == 1..MaxNonce

(* Base64 of fewer than 12 bytes; of bytes no key sealed; of a sealed text *)
(* with a byte altered; of sealed bytes that are not UTF-8                 *)
Base64Short ==
    [b64 |-> TRUE, short |-> TRUE, key |-> "", nonce |-> 0, intact |-> FALSE,
     utf8 |-> FALSE, pt |-> [bytes |-> "QUJD"]]
Base64Unsealed ==
    [b64 |-> TRUE, short |-> FALSE, key |-> "", nonce |-> 0, intact |-> FALSE,
     utf8 |-> FALSE, pt |-> [bytes |-> "QUJDREVGR0hJSktMTU5PUA=="]]
Altered(k) ==
    [b64 |-> TRUE, short |-> FALSE, key |-> k, nonce |-> 1, intact |-> FALSE,
     utf8 |-> TRUE, pt |-> Text([raw |-> "hello"])]
SealedBytes(k) ==
    [b64 |-> TRUE, short |-> FALSE, key |-> k, nonce |-> 1, intact |-> TRUE,
     utf8 |-> FALSE, pt |-> [bytes |-> "ff"]]

PlainTexts ==
    {Text([raw |-> "hello"]), Text([raw |-> ""]),
     to_json(add_address(BitcoinAddresses_new(0), "P2PKH", <<"1", "A">>), 0)}
BaseTexts ==
    PlainTexts \cup {Base64Short, Base64Unsealed}
        \cup {Altered(k) : k \in EncryptionKeys} \cup {SealedBytes(k) : k \in EncryptionKeys}
(* The strings a call is given: the base ones, and encrypt's own output *)
Texts ==
    BaseTexts \cup {encrypt(k, n, s).val[1] : k \in EncryptionKeys, n \in Nonces, s \in PlainTexts}
OptionalKeys == {None} \cup {Some(k) : k \in EncryptionKeys}

(* UbaEncryption::new(key).encrypt(s), then decrypt of the result *)
EncryptDecrypt ==
    /\ sealed = None
    /\ \E k \in EncryptionKeys, n \in Nonces, s \in Texts :
          sealed' = Some([op |-> "roundtrip", key |-> Some(k), data |-> s, nonce |-> n,
                          out |-> decrypt(k, encrypt(k, n, s).val[1])])
    /\ UNCHANGED <<deriveVars, protoVars, parsed, limiter>>

(* UbaEncryption::new(key).decrypt(data) *)
Decrypt ==
    /\ sealed = None
    /\ \E k \in EncryptionKeys, d \in Texts :
          sealed' = Some([op |-> "decrypt", key |-> Some(k), data |-> d, nonce |-> 0,
                          out |-> decrypt(k, d)])
    /\ UNCHANGED <<deriveVars, protoVars, parsed, limiter>>

EncryptIfEnabled ==
    /\ sealed = None
    /\ \E key \in OptionalKeys, n \in Nonces, d \in Texts :
          sealed' = Some([op |-> "encrypt_if_enabled", key |-> key, data |-> d, nonce |-> n,
                          out |-> encrypt_if_enabled(d, key, n)])
    /\ UNCHANGED <<deriveVars, protoVars, parsed, limiter>>

DecryptIfNeeded ==
    /\ sealed = None
    /\ \E key \in OptionalKeys, d \in Texts :
          sealed' = Some([op |-> "decrypt_if_needed", key |-> key, data |-> d, nonce |-> 0,
                          out |-> decrypt_if_needed(d, key)])
    /\ UNCHANGED <<deriveVars, protoVars, parsed, limiter>>

CryptNext ==
    \/ EncryptDecrypt
    \/ Decrypt
    \/ EncryptIfEnabled
    \/ DecryptIfNeeded

---------------------------------------------------------------------------
(* error.rs: validation::RateLimiter *)

(* requests.retain(|&time| now.duration_since(time) < self.window) *)
retain_recent(requests, t, window) == SelectSeq(requests, LAMBDA time : t - time < window)

RateLimiter_new(max_requests, window) ==
    [requests |-> EmptyMap, max_requests |-> max_requests, window |-> window]

is_allowed_inclusive(l, identifier, t) ==
    LET old == IF identifier \in DOMAIN l.requests THEN l.requests[identifier] ELSE <<>>
        requests == retain_recent(old, t, l.window)
    IN IF Len(requests) > l.max_requests
       THEN [limiter |-> [l EXCEPT !.requests = MapInsert(@, identifier, requests)],
             result |-> Err("RateLimit")]
       ELSE [limiter |-> [l EXCEPT !.requests = MapInsert(@, identifier, Append(requests, t))],
             result |-> Ok(<<>>)]

(* RateLimiter::is_allowed at instant t: the limiter after the call, and   *)
(* what the call returned                                                  *)
is_allowed(l, identifier, t) ==
    LET old == IF identifier \in DOMAIN l.requests THEN l.requests[identifier] ELSE <<>>
        requests == retain_recent(old, t, l.window)
    IN IF Len(requests) >= l.max_requests
       THEN [limiter |-> [l EXCEPT !.requests = MapInsert(@, identifier, requests)],
             result |-> Err("RateLimit")]
       ELSE [limiter |-> [l EXCEPT !.requests = MapInsert(@, identifier, Append(requests, t))],
             result |-> Ok(<<>>)]

(* RateLimiter::cleanup at instant t *)
cleanup(l, t) ==
    LET kept == {k \in DOMAIN l.requests : retain_recent(l.requests[k], t, l.window) # <<>>}
    IN [l EXCEPT !.requests = [k \in kept |-> retain_recent(l.requests[k], t, l.window)]]

---------------------------------------------------------------------------
(* SpecLimit: one RateLimiter, called as the monotonic clock advances *)

MaxRequests == 2   \* largest max_requests a limiter is built with
MaxWindow == 2     \* longest window, in clock ticks
MaxClock == 3      \* the clock runs from 0 to MaxClock
MaxCalls == 5      \* is_allowed and cleanup calls on one limiter

Identifiers == {"user1", "user2"}

RateLimiterNew ==
    /\ limiter = None
    /\ \E max_requests \in 0..MaxRequests, window \in 0..MaxWindow :
          limiter' = Some([rl |-> RateLimiter_new(max_requests, window), clock |-> 0, log |-> <<>>])
    /\ UNCHANGED <<deriveVars, protoVars, parsed, sealed>>

(* Instant::now() is monotonic: time only moves forward *)
Elapse ==
    /\ limiter # None /\ limiter[1].clock < MaxClock
    /\ limiter' = Some([limiter[1] EXCEPT !.clock = @ + 1])
    /\ UNCHANGED <<deriveVars, protoVars, parsed, sealed>>

IsAllowed ==
    /\ limiter # None /\ Len(limiter[1].log) < MaxCalls
    /\ \E identifier \in Identifiers :
          LET r == is_allowed(limiter[1].rl, identifier, limiter[1].clock) IN
          limiter' = Some([limiter[1] EXCEPT
                              !.rl = r.limiter,
                              !.log = Append(@, [op |-> "is_allowed", identifier |-> identifier,
                                                 time |-> limiter[1].clock, ok |-> r.result.ok,
                                                 result |-> r.result])])
    /\ UNCHANGED <<deriveVars, protoVars, parsed, sealed>>

Cleanup ==
    /\ limiter # None /\ Len(limiter[1].log) < MaxCalls
    /\ limiter' = Some([limiter[1] EXCEPT
                            !.rl = cleanup(limiter[1].rl, limiter[1].clock),
                            !.log = Append(@, [op |-> "cleanup", identifier |-> "",
                                               time |-> limiter[1].clock, ok |-> FALSE,
                                               result |-> Ok(<<>>)])])
    /\ UNCHANGED <<deriveVars, protoVars, parsed, sealed>>

LimitNext ==
    \/ RateLimiterNew
    \/ Elapse
    \/ IsAllowed
    \/ Cleanup

---------------------------------------------------------------------------
(* nostr_client.rs *)

UbaKind == 30000
BitcoinAddressesTag == <<"b", "i", "t", "c", "o", "i", "n", "-", "a", "d", "d", "r", "e", "s", "s", "e", "s">>
TrueTag == <<"t", "r", "u", "e">>

Tag(k, v) == [k |-> k, v |-> v]
HasTag(ev, k) == \E i \in 1..Len(ev.tags) : ev.tags[i].k = k
HasTagValue(ev, k, v) == \E i \in 1..Len(ev.tags) : ev.tags[i].k = k /\ ev.tags[i].v = v
TagValues(ev, k) == {ev.tags[i].v : i \in {j \in 1..Len(ev.tags) : ev.tags[j].k = k}}

LabelTags(a) ==
    IF a.metadata # None /\ a.metadata[1].label # None
    THEN <<Tag("label", a.metadata[1].label[1])>> ELSE <<>>

(* Keys::generate(): the random key drawn by call r *)
random_keys(r) == [ent |-> "", r |-> r]

generate_nostr_keys_from_seed(seed) ==
    IF seed.length = 64
    THEN IF seed.rawhex THEN Ok([ent |-> seed.ent, r |-> 0]) ELSE Err("HexDecode")
    ELSE IF seed.mnemonic THEN Ok([ent |-> seed.ent, r |-> 0]) ELSE Err("Bip39")

publish_event_untagged(keys, addresses, encryption_key, t, nonce, ord) ==
    [pubkey |-> keys,
     created_at |-> t,
     kind |-> UbaKind,
     tags |-> <<Tag("uba", BitcoinAddressesTag)>>
              \o LabelTags(addresses)
              \o <<Tag("version", to_string(addresses.version))>>,
     content |-> encrypt_if_enabled(to_json(addresses, ord), encryption_key, nonce).val[1]]

(* publish_addresses_with_encryption up to to_event: the event it signs *)
publish_event(keys, addresses, encryption_key, t, nonce, ord) ==
    [pubkey |-> keys,
     created_at |-> t,
     kind |-> UbaKind,
     tags |-> <<Tag("uba", BitcoinAddressesTag)>>
              \o (IF encryption_key # None THEN <<Tag("encrypted", TrueTag)>> ELSE <<>>)
              \o LabelTags(addresses)
              \o <<Tag("version", to_string(addresses.version))>>,
     content |-> encrypt_if_enabled(to_json(addresses, ord), encryption_key, nonce).val[1]]

validate_address_update(addresses) ==
    IF is_empty(addresses) THEN Err("UpdateValidation")
    ELSE IF ~(\E t \in DOMAIN addresses.addresses : addresses.addresses[t] # <<>>)
    THEN Err("UpdateValidation")
    ELSE IF \E t \in DOMAIN addresses.addresses :
               \E i \in 1..Len(addresses.addresses[t]) : trim(addresses.addresses[t][i]) = <<>>
    THEN Err("UpdateValidation")
    ELSE Ok(<<>>)

update_event_stamped(keys, original_event_id, addresses, encryption_key, t, nonce, ord) ==
    [pubkey |-> keys,
     created_at |-> t,
     kind |-> UbaKind,
     tags |-> <<Tag("uba", BitcoinAddressesTag), Tag("replaces", original_event_id)>>
              \o (IF encryption_key # None THEN <<Tag("encrypted", TrueTag)>> ELSE <<>>)
              \o LabelTags(addresses)
              \o <<Tag("version", to_string(addresses.version)),
                   Tag("updated_at", to_string(t))>>,
     content |-> encrypt_if_enabled(to_json(addresses, ord), encryption_key, nonce).val[1]]

(* update_addresses after the two checks, up to to_event: the event it signs *)
update_event(keys, original_event_id, addresses, encryption_key, t, nonce, ord) ==
    [pubkey |-> keys,
     created_at |-> t,
     kind |-> UbaKind,
     tags |-> <<Tag("uba", BitcoinAddressesTag), Tag("replaces", original_event_id)>>
              \o (IF encryption_key # None THEN <<Tag("encrypted", TrueTag)>> ELSE <<>>)
              \o LabelTags(addresses)
              \o <<Tag("version", to_string(addresses.version)),
                   Tag("updated_at", to_string(addresses.created_at))>>,
     content |-> encrypt_if_enabled(to_json(addresses, ord), encryption_key, nonce).val[1]]

(* The identifier of an event is the hash of its fields: equal events have *)
(* equal identifiers and different events different ones.  The n-th       *)
(* different event the relays have seen is given the identifier n; store  *)
(* lists the events seen, each with whether a relay still holds it.       *)
HexDigitOf(n) ==
    CASE n < 10 -> DecDigit(n)
      [] n = 10 -> "a" [] n = 11 -> "b" [] n = 12 -> "c"
      [] n = 13 -> "d" [] n = 14 -> "e" [] n = 15 -> "f"

to_hex(n) ==
    [i \in 1..NostrIdLen |->
        IF i = NostrIdLen THEN HexDigitOf(n % 16)
        ELSE IF i = NostrIdLen - 1 THEN HexDigitOf((n \div 16) % 16)
        ELSE "0"]

(* The number an identifier writes: the inverse of to_hex.  An identifier  *)
(* with more than two significant digits is the identifier of no event the *)
(* relays have seen, as is 0.                                              *)
HexNumber(s) ==
    IF \A i \in 1..(NostrIdLen - 2) : s[i] = "0"
    THEN 16 * HexVal(s[NostrIdLen - 1]) + HexVal(s[NostrIdLen])
    ELSE 0

(* EventId::from_hex *)
from_hex(event_id_hex) ==
    IF validate_nostr_id(event_id_hex).ok THEN Ok(HexNumber(event_id_hex))
    ELSE Err("InvalidUbaFormat")

event_id(st, ev) ==
    IF \E i \in 1..Len(st) : st[i].ev = ev THEN CHOOSE i \in 1..Len(st) : st[i].ev = ev
    ELSE Len(st) + 1

(* The relays' side of send_event: an event already seen is not stored twice *)
send_event(st, ev) ==
    IF \E i \in 1..Len(st) : st[i].ev = ev THEN st ELSE Append(st, [ev |-> ev, held |-> TRUE])

(* A relay that treats kind 30000 as the parametrized replaceable kind the  *)
(* client declares keeps one event per (pubkey, kind, d tag); the client    *)
(* sets no d tag, so an event of the same key displaces the older ones.     *)
replace_older(st, ev) ==
    [i \in 1..Len(st) |->
        IF /\ st[i].ev # ev
           /\ st[i].ev.pubkey = ev.pubkey
           /\ st[i].ev.kind = ev.kind
           /\ st[i].ev.created_at <= ev.created_at
        THEN [st[i] EXCEPT !.held = FALSE]
        ELSE st[i]]

(* The relays' side of get_events_of for Filter::new().id(id).kind(30000).limit(1) *)
get_events_of(st, id) ==
    IF id \in 1..Len(st) /\ st[id].held /\ st[id].ev.kind = UbaKind THEN <<st[id].ev>> ELSE <<>>

retrieve_addresses_with_decryption(st, event_id_hex, encryption_key) ==
    IF ~from_hex(event_id_hex).ok THEN from_hex(event_id_hex)
    ELSE
        LET events == get_events_of(st, from_hex(event_id_hex).val[1]) IN
        IF events = <<>> THEN Err("NoteNotFound")
        ELSE
            LET event == events[1]
                has_uba_tag == HasTagValue(event, "uba", BitcoinAddressesTag)
                is_encrypted == HasTagValue(event, "encrypted", TrueTag)
                content == IF is_encrypted \/ encryption_key # None
                           THEN decrypt_if_needed(event.content, encryption_key).val[1]
                           ELSE event.content
            IN IF ~has_uba_tag THEN Err("InvalidUbaFormat") ELSE from_json(content)

verify_event_exists_any(events) == Ok(<<>>)

(* verify_event_exists, given what the relays answered *)
verify_event_exists(events) == IF events = <<>> THEN Err("EventNotFound") ELSE Ok(<<>>)

---------------------------------------------------------------------------
(* uba.rs: the part of each API function that runs before connect_to_relays *)

generate_with_config_begin(seed, label, relay_urls, config, t) ==
    LET final == final_relay_urls(relay_urls, config)
        addresses == generate_addresses(config, seed, label, t)
        nostr_keys == generate_nostr_keys_from_seed(seed)
    IN IF ~validate_relay_urls(final).ok THEN validate_relay_urls(final)
       ELSE IF label # None /\ ~validate_label(label[1]).ok THEN validate_label(label[1])
       ELSE IF ~addresses.ok THEN addresses
       ELSE IF ~nostr_keys.ok THEN nostr_keys
       ELSE Ok([addresses |-> addresses.val[1], keys |-> nostr_keys.val[1], nostr_id |-> <<>>])

retrieve_with_config_begin(uba, relay_urls, config, r) ==
    LET final == final_relay_urls(relay_urls, config)
        parsed_uba == parse_uba(uba)
    IN IF ~validate_relay_urls(final).ok THEN validate_relay_urls(final)
       ELSE IF ~parsed_uba.ok THEN parsed_uba
       ELSE Ok([addresses |-> BitcoinAddresses_new(0), keys |-> random_keys(r),
                nostr_id |-> parsed_uba.val[1].nostr_id])

update_uba_begin(nostr_event_id, seed, relay_urls, config, t) ==
    LET final == final_relay_urls(relay_urls, config)
        generated == generate_addresses(config, seed, None, t)
        nostr_keys == generate_nostr_keys_from_seed(seed)
    IN IF ~validate_relay_urls(final).ok THEN validate_relay_urls(final)
       ELSE IF ~validate_nostr_id(nostr_event_id).ok THEN validate_nostr_id(nostr_event_id)
       ELSE IF ~generated.ok THEN generated
       ELSE IF ~nostr_keys.ok THEN nostr_keys
       ELSE Ok([addresses |-> [generated.val[1] EXCEPT !.created_at = t],
                keys |-> nostr_keys.val[1], nostr_id |-> nostr_event_id])

update_uba_with_addresses_unchecked(nostr_event_id, updated_addresses, relay_urls, config, r) ==
    LET final == final_relay_urls(relay_urls, config)
    IN IF ~validate_relay_urls(final).ok THEN validate_relay_urls(final)
       ELSE IF ~validate_nostr_id(nostr_event_id).ok THEN validate_nostr_id(nostr_event_id)
       ELSE Ok([addresses |-> updated_addresses, keys |-> random_keys(r),
                nostr_id |-> nostr_event_id])

update_uba_with_addresses_begin(nostr_event_id, updated_addresses, relay_urls, config, r) ==
    LET final == final_relay_urls(relay_urls, config)
    IN IF ~validate_relay_urls(final).ok THEN validate_relay_urls(final)
       ELSE IF ~validate_nostr_id(nostr_event_id).ok THEN validate_nostr_id(nostr_event_id)
       ELSE IF is_empty(updated_addresses) THEN Err("UpdateValidation")
       ELSE IF ~(\E t \in DOMAIN updated_addresses.addresses :
                    updated_addresses.addresses[t] # <<>>)
       THEN Err("UpdateValidation")
       ELSE IF \E t \in DOMAIN updated_addresses.addresses :
                  \E i \in 1..Len(updated_addresses.addresses[t]) :
                     trim(updated_addresses.addresses[t][i]) = <<>>
       THEN Err("UpdateValidation")
       ELSE Ok([addresses |-> updated_addresses, keys |-> random_keys(r),
                nostr_id |-> nostr_event_id])

(* BitcoinAddresses::get_all_addresses: the addresses of every family, as  *)
(* the set of (family, index, address) entries of the flat vector          *)
get_all_addresses(a) ==
    UNION {{<<t, i, a.addresses[t][i]>> : i \in 1..Len(a.addresses[t])} : t \in DOMAIN a.addresses}

---------------------------------------------------------------------------
(* Spec: callers running generate, retrieve and update against the relays *)

ProtoSeeds == {SeedMnemonic, SeedGarbage}
ProtoLabels == {None, Some(<<"w">>), Some(<<"a", " ", "b">>)}
RelayLists == {<<>>, <<RelayWss, RelayWs>>, <<RelayHttps>>, <<RelayWss, RelayNotUrl>>}

CfgKeyed == [DefaultUbaConfig EXCEPT !.encryption_key = Some("K1")]
CfgFlagOnly == [DefaultUbaConfig EXCEPT !.encrypt_data = TRUE, !.custom_relays = Some(<<>>)]
CfgNoAddresses == set_all_counts(DefaultUbaConfig, 0)
CfgTooMany == set_address_count(DefaultUbaConfig, "Liquid", TooManyLiquid)
Configs == {DefaultUbaConfig, CfgKeyed, CfgFlagOnly, CfgNoAddresses, CfgTooMany}
CfgOtherKey == [DefaultUbaConfig EXCEPT !.encryption_key = Some("K2")]
RetrieveConfigs == {DefaultUbaConfig, CfgKeyed, CfgOtherKey}

IdShort == SubSeq(to_hex(1), 1, NostrIdLen - 1)
IdNotHex == <<"i", "n", "v", "a", "l", "i", "d", "_", "h", "e", "x">>
EventIds == {to_hex(1), to_hex(2), IdShort, IdNotHex}

UbaStrings ==
    {UbaPrefix \o to_hex(1), UbaPrefix \o to_hex(2), format_uba(to_hex(1), Some(<<"w">>)),
     to_hex(1), UbaPrefix \o IdShort}

CollEmpty == BitcoinAddresses_new(0)
CollEmptyLists ==
    [BitcoinAddresses_new(0) EXCEPT !.addresses = [t \in {"P2PKH", "Lightning"} |-> <<>>]]
CollEmptyString == add_address(BitcoinAddresses_new(0), "P2PKH", <<>>)
CollBlank ==
    add_address(add_address(BitcoinAddresses_new(0), "P2PKH", <<"1", "A">>), "P2PKH", <<" ", " ">>)
CollValid ==
    add_address(add_address(BitcoinAddresses_new(0), "P2PKH", <<"1", "A">>), "P2WPKH", <<"b", "c">>)
Collections == {CollEmpty, CollEmptyLists, CollEmptyString, CollBlank, CollValid}

UpdateOps == {"update_uba", "update_uba_with_addresses"}
RetrieveOps == {"retrieve", "retrieve_full"}

(* The call returns: its caller is idle again and `last` holds its record *)
Return(c, r, result, net) ==
    /\ calls' = [calls EXCEPT ![c] = None]
    /\ last' = Some([cid |-> r.cid, op |-> r.op, args |-> r.args, addresses |-> r.addresses,
                     nostr_id |-> r.nostr_id, to_connect |-> r.to_connect, event |-> r.event,
                     pc |-> r.pc, result |-> result, net |-> net])

OpKinds == {"generate", "update", "retrieve"}
Started == ops["generate"] + ops["update"] + ops["retrieve"]
Callers == {1, 2}

(* The call starts: it fails before connecting, or it goes on to connect  *)
(* holding what the rest of its body reads (kept).  Call number n draws   *)
(* the n-th random key and nonce.                                          *)
Begin(c, kind, op, args, kept, pre) ==
    LET r == [cid |-> Started + 1, op |-> op, args |-> args, pc |-> "begin",
              addresses |-> IF pre.ok THEN pre.val[1].addresses ELSE BitcoinAddresses_new(0),
              keys |-> IF pre.ok THEN pre.val[1].keys ELSE random_keys(0),
              nostr_id |-> IF pre.ok THEN pre.val[1].nostr_id ELSE <<>>,
              to_connect |-> IF pre.ok THEN final_relay_urls(args.relay_urls, args.config) ELSE <<>>,
              event |-> None, net |-> <<>>]
    IN /\ ops' = [ops EXCEPT ![kind] = @ + 1]
       /\ IF pre.ok
          THEN /\ calls' = [calls EXCEPT ![c] = Some([r EXCEPT !.pc = "connect", !.args = kept])]
               /\ last' = None
          ELSE Return(c, r, pre, <<>>)
       /\ UNCHANGED <<store, pubLog, now, cfg, gen, cfgOps, called, pureVars>>

StartGenerate(c) ==
    /\ last = None /\ calls[c] = None /\ ops["generate"] < MaxGenerate
    /\ \E seed \in ProtoSeeds, label \in ProtoLabels, relay_urls \in RelayLists, config \in Configs :
          Begin(c, "generate", "generate",
                [seed |-> seed, label |-> label, relay_urls |-> relay_urls, config |-> config],
                [label |-> label, config |-> config],
                generate_with_config_begin(seed, label, relay_urls, config, now))

StartRetrieve(c) ==
    /\ last = None /\ calls[c] = None /\ ops["retrieve"] < MaxRetrieve
    /\ \E op \in RetrieveOps, uba \in UbaStrings, relay_urls \in RelayLists,
          config \in RetrieveConfigs :
          Begin(c, "retrieve", op, [uba |-> uba, relay_urls |-> relay_urls, config |-> config],
                [config |-> config],
                retrieve_with_config_begin(uba, relay_urls, config, Started + 1))

StartUpdateUba(c) ==
    /\ last = None /\ calls[c] = None /\ ops["update"] < MaxUpdate
    /\ \E id \in EventIds, seed \in ProtoSeeds, relay_urls \in RelayLists, config \in Configs :
          Begin(c, "update", "update_uba",
                [nostr_event_id |-> id, seed |-> seed, relay_urls |-> relay_urls, config |-> config],
                [config |-> config],
                update_uba_begin(id, seed, relay_urls, config, now))

StartUpdateUbaWithAddresses(c) ==
    /\ last = None /\ calls[c] = None /\ ops["update"] < MaxUpdate
    /\ \E id \in EventIds, a \in Collections, relay_urls \in RelayLists, config \in Configs :
          Begin(c, "update", "update_uba_with_addresses",
                [nostr_event_id |-> id, updated_addresses |-> a, relay_urls |-> relay_urls,
                 config |-> config],
                [config |-> config],
                update_uba_with_addresses_begin(id, a, relay_urls, config, Started + 1))

(* The event a call is about to send: serialized in one of the key orders *)
(* the HashMap may have, and encrypted under a fresh nonce if a key is set *)
SignedEvent(r, ord, t, nonce) ==
    IF r.op = "generate"
    THEN publish_event(r.keys, r.addresses, r.args.config.encryption_key, t, nonce, ord)
    ELSE update_event(r.keys, r.nostr_id, r.addresses, r.args.config.encryption_key, t, nonce, ord)

(* connect_to_relays adds every relay and returns Ok; generate then builds *)
(* its event                                                              *)
Connect(c) ==
    /\ last = None /\ calls[c] # None /\ calls[c][1].pc = "connect"
    /\ LET r == calls[c][1]
           net == Append(r.net, "connect")
       IN IF r.op = "generate"
          THEN /\ \E ord \in KeyOrders(r.addresses) :
                     calls' = [calls EXCEPT ![c] =
                         Some([r EXCEPT !.pc = "send", !.net = net, !.to_connect = <<>>,
                                        !.event = Some(SignedEvent(r, ord, now, r.cid))])]
          ELSE /\ calls' = [calls EXCEPT ![c] =
                     Some([r EXCEPT !.pc = IF r.op \in UpdateOps THEN "verify" ELSE "fetch",
                                    !.net = net, !.to_connect = <<>>])]
    /\ last' = None
    /\ UNCHANGED <<store, pubLog, now, ops, cfg, gen, cfgOps, called, pureVars>>

(* connect_to_relays fails in add_relay *)
ConnectFail(c) ==
    /\ last = None /\ calls[c] # None /\ calls[c][1].pc = "connect"
    /\ Return(c, calls[c][1], Err("NostrRelay"), Append(calls[c][1].net, "connect"))
    /\ UNCHANGED <<store, pubLog, now, ops, cfg, gen, cfgOps, called, pureVars>>

(* update_addresses: the relays answer verify_event_exists; the collection *)
(* is validated and the event built                                        *)
VerifyReply(c) ==
    /\ last = None /\ calls[c] # None /\ calls[c][1].pc = "verify"
    /\ LET r == calls[c][1]
           id == from_hex(r.nostr_id)
           events == IF id.ok THEN get_events_of(store, id.val[1]) ELSE <<>>
           net == Append(r.net, "fetch")
       IN IF ~id.ok THEN Return(c, r, id, r.net)
          ELSE IF ~verify_event_exists(events).ok
          THEN Return(c, r, verify_event_exists(events), net)
          ELSE IF ~validate_address_update(r.addresses).ok
          THEN Return(c, r, validate_address_update(r.addresses), net)
          ELSE /\ \E ord \in KeyOrders(r.addresses) :
                     calls' = [calls EXCEPT ![c] =
                         Some([r EXCEPT !.pc = "send", !.net = net,
                                        !.event = Some(SignedEvent(r, ord, now, r.cid))])]
               /\ last' = None
    /\ UNCHANGED <<store, pubLog, now, ops, cfg, gen, cfgOps, called, pureVars>>

(* verify_event_exists times out or the relays fail *)
VerifyFail(c) ==
    /\ last = None /\ calls[c] # None /\ calls[c][1].pc = "verify"
    /\ \E e \in {"Timeout", "NostrRelay"} :
          Return(c, calls[c][1], Err(e), Append(calls[c][1].net, "fetch"))
    /\ UNCHANGED <<store, pubLog, now, ops, cfg, gen, cfgOps, called, pureVars>>

(* send_event: the event reaches the relays, which store it; they keep the *)
(* older events of its key, or keep only the newest                        *)
SendEvent(c) ==
    /\ last = None /\ calls[c] # None /\ calls[c][1].pc = "send"
    /\ LET r == calls[c][1]
           ev == r.event[1]
       IN /\ \E replaceable \in BOOLEAN :
                store' = IF replaceable THEN replace_older(send_event(store, ev), ev)
                         ELSE send_event(store, ev)
          /\ pubLog' = Append(pubLog, [cid |-> r.cid, op |-> r.op, args |-> r.args,
                                       nostr_id |-> r.nostr_id, addresses |-> r.addresses,
                                       event |-> ev, id |-> event_id(store, ev)])
          /\ calls' = [calls EXCEPT ![c] =
                Some([r EXCEPT !.pc = "ack", !.net = Append(r.net, "publish")])]
    /\ last' = None
    /\ UNCHANGED <<now, ops, cfg, gen, cfgOps, called, pureVars>>

(* send_event fails, or the timeout passes, before the event reaches a relay *)
SendFail(c) ==
    /\ last = None /\ calls[c] # None /\ calls[c][1].pc = "send"
    /\ \E e \in {"Timeout", "NostrRelay"} :
          Return(c, calls[c][1], Err(e), Append(calls[c][1].net, "publish"))
    /\ UNCHANGED <<store, pubLog, now, ops, cfg, gen, cfgOps, called, pureVars>>

(* The relays' OK arrives in time: disconnect and return the UBA string *)
AckOk(c) ==
    /\ last = None /\ calls[c] # None /\ calls[c][1].pc = "ack"
    /\ LET r == calls[c][1]
           id == to_hex(event_id(store, r.event[1]))
       IN Return(c, r,
                 Ok(IF r.op = "generate" THEN format_uba(id, r.args.label) ELSE format_uba(id, None)),
                 Append(r.net, "disconnect"))
    /\ UNCHANGED <<store, pubLog, now, ops, cfg, gen, cfgOps, called, pureVars>>

(* The timeout passes before the relays' OK arrives *)
AckTimeout(c) ==
    /\ last = None /\ calls[c] # None /\ calls[c][1].pc = "ack"
    /\ Return(c, calls[c][1], Err("Timeout"), calls[c][1].net)
    /\ UNCHANGED <<store, pubLog, now, ops, cfg, gen, cfgOps, called, pureVars>>

(* retrieve: the relays answer; on success disconnect and return *)
FetchReply(c) ==
    /\ last = None /\ calls[c] # None /\ calls[c][1].pc = "fetch"
    /\ LET r == calls[c][1]
           got == retrieve_addresses_with_decryption(store, r.nostr_id, r.args.config.encryption_key)
       IN IF ~got.ok THEN Return(c, r, got, Append(r.net, "fetch"))
          ELSE Return(c, r,
                      IF r.op = "retrieve" THEN Ok(get_all_addresses(got.val[1])) ELSE got,
                      r.net \o <<"fetch", "disconnect">>)
    /\ UNCHANGED <<store, pubLog, now, ops, cfg, gen, cfgOps, called, pureVars>>

(* retrieve: get_events_of times out or the relays fail *)
FetchFail(c) ==
    /\ last = None /\ calls[c] # None /\ calls[c][1].pc = "fetch"
    /\ \E e \in {"Timeout", "NostrRelay"} :
          Return(c, calls[c][1], Err(e), Append(calls[c][1].net, "fetch"))
    /\ UNCHANGED <<store, pubLog, now, ops, cfg, gen, cfgOps, called, pureVars>>

(* A second passes *)
Tick ==
    /\ last = None
    /\ now < MaxTime
    /\ now' = now + 1
    /\ last' = None
    /\ UNCHANGED <<calls, store, pubLog, ops, cfg, gen, cfgOps, called, pureVars>>

(* The caller takes the value its call returned *)
TakeResult ==
    /\ last # None
    /\ last' = None
    /\ UNCHANGED <<calls, store, pubLog, now, ops, cfg, gen, cfgOps, called, pureVars>>


CallerNext(c) ==
    \/ StartGenerate(c)
    \/ StartRetrieve(c)
    \/ StartUpdateUba(c)
    \/ StartUpdateUbaWithAddresses(c)
    \/ Connect(c)
    \/ ConnectFail(c)
    \/ VerifyReply(c)
    \/ VerifyFail(c)
    \/ SendEvent(c)
    \/ SendFail(c)
    \/ AckOk(c)
    \/ AckTimeout(c)
    \/ FetchReply(c)
    \/ FetchFail(c)

(* One caller, making one call after another *)
ProtoNext ==
    \/ CallerNext(1)
    \/ Tick
    \/ TakeResult

(* SpecRace: one item is generated, then two callers update it at once *)
RaceStartGenerate(c) ==
    /\ last = None /\ calls[c] = None /\ ops["generate"] < MaxGenerate /\ store = <<>>
    /\ \A d \in Callers : calls[d] = None
    /\ Begin(c, "generate", "generate",
             [seed |-> SeedMnemonic, label |-> None, relay_urls |-> <<>>,
              config |-> DefaultUbaConfig],
             [label |-> None, config |-> DefaultUbaConfig],
             generate_with_config_begin(SeedMnemonic, None, <<>>, DefaultUbaConfig, now))

RaceStartUpdateUba(c) ==
    /\ last = None /\ calls[c] = None /\ ops["update"] < MaxRaceUpdate /\ store # <<>>
    /\ \E config \in {DefaultUbaConfig, CfgKeyed} :
          Begin(c, "update", "update_uba",
                [nostr_event_id |-> to_hex(1), seed |-> SeedMnemonic, relay_urls |-> <<>>,
                 config |-> config],
                [config |-> config],
                update_uba_begin(to_hex(1), SeedMnemonic, <<>>, config, now))

RaceStartUpdateUbaWithAddresses(c) ==
    /\ last = None /\ calls[c] = None /\ ops["update"] < MaxRaceUpdate /\ store # <<>>
    /\ Begin(c, "update", "update_uba_with_addresses",
             [nostr_event_id |-> to_hex(1), updated_addresses |-> CollValid,
              relay_urls |-> <<>>, config |-> DefaultUbaConfig],
             [config |-> DefaultUbaConfig],
             update_uba_with_addresses_begin(to_hex(1), CollValid, <<>>, DefaultUbaConfig,
                                             Started + 1))

RaceCallerNext(c) ==
    \/ RaceStartGenerate(c)
    \/ RaceStartUpdateUba(c)
    \/ RaceStartUpdateUbaWithAddresses(c)
    \/ Connect(c)
    \/ ConnectFail(c)
    \/ VerifyReply(c)
    \/ VerifyFail(c)
    \/ SendEvent(c)
    \/ SendFail(c)
    \/ AckOk(c)
    \/ AckTimeout(c)

RaceNext ==
    \/ \E c \in Callers : RaceCallerNext(c)
    \/ Tick
    \/ TakeResult

---------------------------------------------------------------------------
(* SpecParse: UBA strings, as generate formats them and as a caller may *)
(* hand them to parse_uba                                                *)

MaxParams == 3     \* query parameters after the identifier in a parsed string

IdLower == Repeat(<<"0", "1", "2", "3", "4", "5", "6", "7", "8", "9", "a", "b", "c", "d", "e", "f">>, 4)
IdMixed == Repeat(<<"1", "2", "3", "4", "5", "6", "7", "8", "A", "B", "C", "D", "E", "F", "a", "b">>, 4)
IdAllF == Repeat(<<"f">>, NostrIdLen)
HexIds == {to_hex(1), IdLower, IdMixed, IdAllF}

(* Labels a caller may pass to generate; validate_label accepts some *)
LabelLong == Repeat(<<"a">>, MaxLabelLen)
CallerLabels ==
    {<<"w">>, <<"m", "y", "-", "w", "a", "l", "l", "e", "t">>, <<"a", "_", "b", "-", "C", "9">>, <<"l", "a", "b", "e", "l">>, <<"0">>, LabelLong,
     Repeat(<<"a">>, MaxLabelLen + 1), <<>>, <<"a", " ", "b">>, <<"a", "%", "4", "1">>, <<"a", "&", "b">>, <<"a", "=", "b">>}

(* generate_with_config, from validate_label to the formatted string, and *)
(* parse_uba on that string                                               *)
FormatThenParse ==
    /\ parsed = None
    /\ \E id \in HexIds, label \in {None} \cup {Some(l) : l \in CallerLabels} :
          /\ label # None => validate_label(label[1]).ok
          /\ parsed' = Some([kind |-> "format", id |-> id, label |-> label,
                              prefix |-> UbaPrefix, params |-> <<>>,
                              uba |-> format_uba(id, label),
                              res |-> parse_uba(format_uba(id, label))])
    /\ UNCHANGED <<deriveVars, protoVars, sealed, limiter>>

(* A query parameter: key=value, or a segment without '=' (key None) *)
Param(key, value) == [key |-> key, value |-> value]
ParamText(p) == IF p.key = None THEN p.value ELSE p.key[1] \o <<"=">> \o p.value
LabelKey == <<"l", "a", "b", "e", "l">>

QueryParams ==
    {Param(Some(LabelKey), <<"w">>), Param(Some(LabelKey), <<"a", "%", "4", "1">>), Param(Some(LabelKey), <<"%", "C", "3", "%", "A", "9">>),
     Param(Some(LabelKey), <<"%", "F", "F">>), Param(Some(LabelKey), <<"%", "C", "3">>),
     Param(Some(LabelKey), <<"%", "z", "z", "%", "4">>), Param(Some(LabelKey), <<>>),
     Param(Some(<<"L", "a", "b", "e", "l">>), <<"w">>), Param(Some(<<"x">>), <<"1">>), Param(Some(<<"l", "a", "b", "e", "l", "x">>), <<"%", "F", "F">>),
     Param(None, <<"f", "o", "o">>), Param(None, LabelKey), Param(None, <<>>)}

ParamLists == UNION {[1..n -> QueryParams] : n \in 0..MaxParams}

RECURSIVE JoinParams(_)
JoinParams(ps) ==
    IF ps = <<>> THEN <<>> ELSE <<"&">> \o ParamText(Head(ps)) \o JoinParams(Tail(ps))

UbaText(prefix, segment, ps) == prefix \o segment \o JoinParams(ps)

Prefixes == {UbaPrefix, <<"u", "b", "a", ":">>, <<>>}
Segments == {IdLower, IdMixed, IdShort, IdNotHex, IdAllF \o <<"f">>, <<>>,
             [IdAllF EXCEPT ![NostrIdLen] = "g"]}

(* parse_uba on a string a caller hands in *)
ParseUba ==
    /\ parsed = None
    /\ \E prefix \in Prefixes, segment \in Segments, ps \in ParamLists :
          parsed' = Some([kind |-> "parse", id |-> segment, label |-> None,
                          prefix |-> prefix, params |-> ps,
                          uba |-> UbaText(prefix, segment, ps),
                          res |-> parse_uba(UbaText(prefix, segment, ps)),
                          wasm |-> parse_uba_internal(UbaText(prefix, segment, ps))])
    /\ UNCHANGED <<deriveVars, protoVars, sealed, limiter>>

ParseNext ==
    \/ FormatThenParse
    \/ ParseUba

ProtoIdle ==
    /\ calls = [c \in Callers |-> None]
    /\ last = None
    /\ store = <<>>
    /\ pubLog = <<>>
    /\ now = 0
    /\ ops = [k \in OpKinds |-> 0]

PureIdle ==
    /\ parsed = None
    /\ sealed = None
    /\ limiter = None

Init == DeriveInit /\ ProtoIdle /\ PureIdle

SpecDerive == Init /\ [][DeriveNext]_vars

Next == ProtoNext
Spec == Init /\ [][Next]_vars

SpecRace == Init /\ [][RaceNext]_vars

SpecParse == Init /\ [][ParseNext]_vars

SpecCrypt == Init /\ [][CryptNext]_vars

SpecLimit == Init /\ [][LimitNext]_vars

---------------------------------------------------------------------------
(* C1: a family for which is_address_type_enabled is false never appears *)
(* in the collection generate_addresses returns, whatever its count, and *)
(* is absent from get_enabled_address_types().                           *)
C1_DisabledFamilyAbsent ==
    \A t \in AddressTypes :
        (gen # None /\ gen[1].res.ok /\ ~is_address_type_enabled(cfg, t)) =>
            /\ t \notin DOMAIN gen[1].res.val[1].addresses
            /\ \A i \in 1..Len(get_enabled_address_types(cfg)) :
                  get_enabled_address_types(cfg)[i] # t

---------------------------------------------------------------------------
(* The calls in flight and the call that returned last *)

InFlight == {calls[c][1] : c \in {d \in Callers : calls[d] # None}}
Published(cid) == \E i \in 1..Len(pubLog) : pubLog[i].cid = cid
Resolves(id) == validate_nostr_id(id).ok /\ get_events_of(store, HexNumber(id)) # <<>>

(* C2: on every update path a collection that fails validation is          *)
(* rejected with UpdateValidation before any network attempt: no update    *)
(* returns UpdateValidation after connecting or fetching.                  *)
C2_ValidationBeforeNetwork ==
    (last # None /\ last[1].op \in UpdateOps /\ last[1].result.err = "UpdateValidation") =>
        last[1].net = <<>>

(* An outgoing collection with no family, only empty lists, or an empty or *)
(* whitespace-only address                                                 *)
BadCollection(a) ==
    \/ DOMAIN a.addresses = {}
    \/ \A t \in DOMAIN a.addresses : a.addresses[t] = <<>>
    \/ \E t \in DOMAIN a.addresses :
          \E i \in 1..Len(a.addresses[t]) :
             \A j \in 1..Len(a.addresses[t][i]) : IsWhitespace(a.addresses[t][i][j])

BadEndpoints(urls) ==
    \/ urls = <<>>
    \/ \E i \in 1..Len(urls) : ~urls[i].parses \/ urls[i].scheme \notin {"ws", "wss"}

BadId(id) == Len(id) # 64 \/ \E i \in 1..Len(id) : id[i] \notin HexDigits

BadLabel(label) ==
    /\ label # None
    /\ \/ label[1] = <<>>
       \/ Len(label[1]) > 100
       \/ \E i \in 1..Len(label[1]) : label[1][i] \notin AsciiAlphanumeric \cup {"-", "_"}

(* The call r was given a collection update_uba_with_addresses must reject, *)
(* with a well-formed identifier and endpoint list                          *)
C3_Case(r) ==
    /\ r.op = "update_uba_with_addresses"
    /\ IF r.pc = "begin"
       THEN /\ ~BadId(r.args.nostr_event_id)
            /\ ~BadEndpoints(final_relay_urls(r.args.relay_urls, r.args.config))
            /\ BadCollection(r.args.updated_addresses)
       ELSE BadCollection(r.addresses)

(* C3: update_uba_with_addresses with a well-formed identifier and endpoint *)
(* list and an empty collection, one with only empty lists, or one with an  *)
(* empty address returns UpdateValidation with no connect, fetch or publish *)
(* and nothing stored for it: such a call is never in flight.               *)
C3_InvalidCollectionNoStore ==
    /\ \A r \in InFlight : ~C3_Case(r)
    /\ (last # None /\ C3_Case(last[1])) =>
          /\ last[1].result.err = "UpdateValidation"
          /\ last[1].net = <<>>
          /\ ~Published(last[1].cid)

C3_Witness ==
    /\ last # None /\ C3_Case(last[1])
    /\ last[1].args.updated_addresses = CollEmptyString
    /\ Resolves(last[1].args.nostr_event_id)

(* The call r was given an empty or malformed endpoint list, an invalid    *)
(* label or an identifier that is not 64 hex characters                    *)
C4_Case(r) ==
    IF r.pc = "begin"
    THEN \/ BadEndpoints(final_relay_urls(r.args.relay_urls, r.args.config))
         \/ r.op = "generate" /\ BadLabel(r.args.label)
         \/ r.op \in UpdateOps /\ BadId(r.args.nostr_event_id)
         \/ /\ r.op \in RetrieveOps
            /\ starts_with(r.args.uba, UbaPrefix)
            /\ BadId(split(SubSeq(r.args.uba, 5, Len(r.args.uba)), "&")[1])
    ELSE \/ r.pc = "connect" /\ BadEndpoints(r.to_connect)
         \/ r.op = "generate" /\ BadLabel(r.args.label)
         \/ r.op # "generate" /\ BadId(r.nostr_id)

(* C4: in the five API functions an empty or malformed endpoint list (the  *)
(* list the call would use: relay_urls, or the config's list when          *)
(* relay_urls is empty), an invalid label or an identifier that is not 64  *)
(* hex characters makes the call return an error before it connects: no    *)
(* such call is in flight, and it returned with no connect, fetch or       *)
(* publish and nothing stored.                                             *)
C4_InvalidInputNoConnect ==
    /\ \A r \in InFlight : ~C4_Case(r)
    /\ (last # None /\ C4_Case(last[1])) =>
          /\ ~last[1].result.ok
          /\ last[1].net = <<>>
          /\ ~Published(last[1].cid)

C4_Witness ==
    /\ last # None /\ last[1].op = "retrieve_full" /\ C4_Case(last[1])
    /\ last[1].args.relay_urls = <<RelayHttps>>
    /\ store # <<>>

(* C5: an update whose original identifier does not resolve fails with     *)
(* EventNotFound and publishes nothing; an update publishes only after the *)
(* fetch of the original identifier returned an item.                      *)
C5_UpdateNeedsOriginal ==
    /\ \A r \in InFlight :
          (r.op \in UpdateOps /\ r.pc = "send") =>
              /\ r.net = <<"connect", "fetch">>
              /\ Resolves(r.nostr_id)
    /\ \A i \in 1..Len(pubLog) :
          pubLog[i].op \in UpdateOps =>
              /\ ~BadId(pubLog[i].nostr_id)
              /\ HexNumber(pubLog[i].nostr_id) < pubLog[i].id
    /\ (last # None /\ last[1].op \in UpdateOps /\ last[1].pc = "verify") =>
          /\ (~Resolves(last[1].nostr_id) /\ last[1].result.err \notin {"Timeout", "NostrRelay"})
                => last[1].result.err = "EventNotFound"
          /\ last[1].result.err = "EventNotFound" =>
                /\ ~Resolves(last[1].nostr_id)
                /\ ~Published(last[1].cid)

C5_Witness ==
    /\ last # None /\ last[1].op = "update_uba" /\ last[1].result.err = "EventNotFound"
    /\ last[1].nostr_id = to_hex(2)
    /\ Resolves(to_hex(1))

(* C6: after any sequence of generate and update operations every          *)
(* identifier returned earlier still resolves to the content and tags it   *)
(* was published with, and retrieving by it returns the collection         *)
(* published under it.                                                     *)
C6_EarlierIdsResolveUnchanged ==
    /\ \A i \in 1..Len(pubLog) : get_events_of(store, pubLog[i].id) = <<pubLog[i].event>>
    /\ (last # None /\ last[1].op = "retrieve_full" /\ last[1].result.ok) =>
          \A i \in 1..Len(pubLog) :
              to_hex(pubLog[i].id) = last[1].nostr_id =>
                  last[1].result.val[1] = pubLog[i].addresses

(* C7: two updates against the same original identifier return two         *)
(* distinct new identifiers, and neither fails because of the other: an    *)
(* update fails with EventNotFound only for an identifier under which      *)
(* nothing was published.                                                  *)
C7_TwoUpdatesIndependent ==
    /\ \A i, j \in 1..Len(pubLog) :
          (/\ i < j
           /\ pubLog[i].op \in UpdateOps /\ pubLog[j].op \in UpdateOps
           /\ pubLog[i].nostr_id = pubLog[j].nostr_id) => pubLog[i].id # pubLog[j].id
    /\ (last # None /\ last[1].op \in UpdateOps /\ last[1].result.err = "EventNotFound") =>
          ~\E i \in 1..Len(pubLog) : to_hex(pubLog[i].id) = last[1].nostr_id

(* C8: a publish that returned Timeout has left no item in the store.      *)
C8_TimeoutLeavesNothing ==
    (/\ last # None /\ last[1].op \notin RetrieveOps
     /\ last[1].result.err = "Timeout" /\ last[1].pc \in {"send", "ack"}) =>
        ~Published(last[1].cid)

TagCount(ev, k) == Cardinality({i \in 1..Len(ev.tags) : ev.tags[i].k = k})

(* C10: replaces and updated_at are on exactly the items an update         *)
(* published, replaces holding the original identifier passed to the       *)
(* update and updated_at the created_at of the published collection;       *)
(* every published item carries uba=bitcoin-addresses and a version tag.   *)
C10_UpdateTags ==
    \A i \in 1..Len(pubLog) :
        LET p == pubLog[i] IN
        /\ p.op \in UpdateOps =>
              /\ TagCount(p.event, "replaces") = 1
              /\ TagValues(p.event, "replaces") = {p.nostr_id}
              /\ TagCount(p.event, "updated_at") = 1
              /\ TagValues(p.event, "updated_at") = {to_string(p.addresses.created_at)}
        /\ p.op = "generate" =>
              /\ ~HasTag(p.event, "replaces")
              /\ ~HasTag(p.event, "updated_at")
        /\ HasTagValue(p.event, "uba", BitcoinAddressesTag)
        /\ TagValues(p.event, "version") = {to_string(p.addresses.version)}

C10_Witness ==
    \E i, j \in 1..Len(pubLog) :
        /\ pubLog[i].op = "generate"
        /\ pubLog[j].op = "update_uba"
        /\ pubLog[j].event.created_at # pubLog[j].addresses.created_at

---------------------------------------------------------------------------
(* C11: for every identifier of 64 hex characters and every label that    *)
(* validate_label accepts (or no label), parse_uba on the string generate *)
(* formats from them returns that identifier and that label.              *)
C11_FormatParseRoundTrip ==
    (parsed # None /\ parsed[1].kind = "format") =>
        /\ parsed[1].res.ok
        /\ parsed[1].res.val[1].nostr_id = parsed[1].id
        /\ parsed[1].res.val[1].label = parsed[1].label

C11_Witness ==
    /\ parsed # None /\ parsed[1].kind = "format"
    /\ parsed[1].id = IdMixed
    /\ parsed[1].label = Some(<<"m", "y", "-", "w", "a", "l", "l", "e", "t">>)
    /\ parsed[1].res.ok

(* What a parsed string was put together from *)
BadPrefix(p) == p.prefix # UbaPrefix
BadSegment(p) == Len(p.id) # 64 \/ \E i \in 1..Len(p.id) : p.id[i] \notin HexDigits
IsLabelParam(q) == q.key = Some(LabelKey)
DecodeFails(q) == ~url_decode(q.value).ok
AnyLabelFails(p) == \E i \in 1..Len(p.params) : IsLabelParam(p.params[i]) /\ DecodeFails(p.params[i])
FirstLabelFails(p) ==
    \E i \in 1..Len(p.params) :
        /\ IsLabelParam(p.params[i]) /\ DecodeFails(p.params[i])
        /\ \A j \in 1..(i - 1) : ~IsLabelParam(p.params[j])

C13_UnknownParamsIgnored ==
    (parsed # None /\ parsed[1].kind = "parse") =>
        parsed[1].res =
            parse_uba(UbaText(parsed[1].prefix, parsed[1].id,
                              SelectSeq(parsed[1].params, IsLabelParam)))

C13_Witness ==
    /\ parsed # None /\ parsed[1].kind = "parse"
    /\ parsed[1].params = <<Param(Some(<<"x">>), <<"1">>), Param(Some(LabelKey), <<"w">>), Param(None, <<"f", "o", "o">>)>>
    /\ parsed[1].res.ok
    /\ parsed[1].res.val[1].label = Some(<<"w">>)

---------------------------------------------------------------------------
(* A seed input that is neither a mnemonic phrase nor the hex of 32 bytes *)
NotASeed(seed) == ~seed.mnemonic /\ ~(seed.hex /\ seed.nbytes = 32)

(* C14: generate_addresses fails with InvalidSeed for every seed_input    *)
(* that is neither a valid mnemonic phrase nor the hex encoding of        *)
(* exactly 32 bytes.                                                      *)
C14_BadSeedIsInvalidSeed ==
    (gen # None /\ NotASeed(gen[1].seed)) => gen[1].res = Err("InvalidSeed")

(* A config under which a Liquid index passes the largest normal index *)
IndexOutOfRange(c) ==
    get_address_count(c, "Liquid") - 1 > MaxNormalIdx - (IF c.network = "Bitcoin" THEN 1000 ELSE 0)

DerivingOps == {"generate", "update_uba"}

(* C15: if derivation fails (invalid seed, or a child index out of range  *)
(* in a family after others were derived) the call returns an error and   *)
(* no collection, and generate and update publish nothing: such a call    *)
(* never goes on to connect, and it returns with nothing sent or stored.  *)
C15_NoPartialCollection ==
    /\ \A r \in InFlight : r.op \in DerivingOps => ~IndexOutOfRange(r.args.config)
    /\ \A i \in 1..Len(pubLog) :
          pubLog[i].op \in DerivingOps => ~IndexOutOfRange(pubLog[i].args.config)
    /\ (last # None /\ last[1].op \in DerivingOps /\ IndexOutOfRange(last[1].args.config)) =>
          last[1].pc = "begin"
    /\ (/\ last # None /\ last[1].op \in DerivingOps /\ last[1].pc = "begin"
        /\ (IndexOutOfRange(last[1].args.config) \/ NotASeed(last[1].args.seed))) =>
          /\ ~last[1].result.ok
          /\ last[1].result.val = <<>>
          /\ last[1].net = <<>>
          /\ ~Published(last[1].cid)

C15_Witness ==
    /\ last # None /\ last[1].op = "generate" /\ last[1].pc = "begin"
    /\ last[1].args.seed = SeedMnemonic
    /\ last[1].args.config = CfgTooMany
    /\ last[1].result = Err("AddressGeneration")

PathOf(t) ==
    CASE t = "P2PKH" -> "m/44'/0'/0'/0" [] t = "P2SH" -> "m/49'/0'/0'/0"
      [] t = "P2WPKH" -> "m/84'/0'/0'/0" [] t = "P2TR" -> "m/86'/0'/0'/0"
      [] t = "Liquid" -> "m/84'/1776'/0'/0" [] t = "Lightning" -> "m/1017'/0'/0'"
      [] t = "Nostr" -> "m/44'/1237'/0'/0"

(* C17: every family present in a derived collection has exactly          *)
(* get_address_count(family) entries, entry i being the address derived   *)
(* at <family-prefix>/i in increasing order of i; with the default config *)
(* the collection has the 7 families with 1 address each, and len() = 7.  *)
C17_CountPerFamily ==
    (gen # None /\ gen[1].res.ok) =>
        LET a == gen[1].res.val[1]
            master == [ent |-> gen[1].seed.ent, network |-> cfg.network]
        IN /\ \A t \in DOMAIN a.addresses :
                 /\ Len(a.addresses[t]) = get_address_count(cfg, t)
                 /\ \A i \in 1..Len(a.addresses[t]) :
                        a.addresses[t][i] = <<PathOf(t), master.ent, master.network>> \o to_string(i - 1)
           /\ cfg = DefaultUbaConfig =>
                 /\ DOMAIN a.addresses = AddressTypes
                 /\ \A t \in AddressTypes : Len(a.addresses[t]) = 1
                 /\ len(a) = 7

C17_Witness ==
    /\ gen # None /\ gen[1].res.ok
    /\ cfg.max_addresses_per_type = 2
    /\ get_address_count(cfg, "P2TR") = 1
    /\ Len(gen[1].res.val[1].addresses["Nostr"]) = 2
    /\ Len(gen[1].res.val[1].addresses["P2TR"]) = 1

---------------------------------------------------------------------------
C19_DecryptOpaque ==
    (sealed # None /\ sealed[1].op = "decrypt") =>
        /\ ~sealed[1].out.ok => sealed[1].out = Err("Encryption")
        /\ sealed[1].out.ok =>
              /\ sealed[1].out.val[1] \in Texts
              /\ sealed[1].data =
                     encrypt(sealed[1].key[1], sealed[1].data.nonce, sealed[1].out.val[1]).val[1]

C19_Witness ==
    /\ sealed # None /\ sealed[1].op = "decrypt"
    /\ sealed[1].data = SealedBytes(sealed[1].key[1])
    /\ sealed[1].out = Err("Encryption")

(* The string d decrypts under k *)
Decrypts(k, d) == d.b64 /\ ~d.short /\ d.key = k /\ d.intact /\ d.utf8

(* C20: encrypt_if_enabled(d, None) and decrypt_if_needed(d, None) return *)
(* d unchanged; decrypt_if_needed(d, Some(k)) returns the plaintext when  *)
(* d decrypts under k and d unchanged otherwise, and never an error.      *)
C20_WrappersPassThrough ==
    /\ (sealed # None /\ sealed[1].op = "encrypt_if_enabled" /\ sealed[1].key = None) =>
          sealed[1].out = Ok(sealed[1].data)
    /\ (sealed # None /\ sealed[1].op = "decrypt_if_needed") =>
          /\ sealed[1].out.ok
          /\ sealed[1].key = None => sealed[1].out = Ok(sealed[1].data)
          /\ sealed[1].key # None =>
                sealed[1].out = IF Decrypts(sealed[1].key[1], sealed[1].data)
                                THEN Ok(sealed[1].data.pt)
                                ELSE Ok(sealed[1].data)

C20_Witness ==
    /\ sealed # None /\ sealed[1].op = "decrypt_if_needed"
    /\ sealed[1].key = Some("K2")
    /\ Decrypts("K1", sealed[1].data)
    /\ sealed[1].out = Ok(sealed[1].data)

---------------------------------------------------------------------------
(* The retrieve call that just returned asked, with an encryption key, for *)
(* an item the relays hold and that was encrypted under another key        *)
WrongKeyRetrieve ==
    /\ last # None /\ last[1].op \in RetrieveOps
    /\ Len(last[1].net) > 0 /\ last[1].net[Len(last[1].net)] \in {"fetch", "disconnect"}
    /\ last[1].args.config.encryption_key # None
    /\ from_hex(last[1].nostr_id).ok
    /\ LET events == get_events_of(store, from_hex(last[1].nostr_id).val[1]) IN
          /\ events # <<>>
          /\ HasTagValue(events[1], "encrypted", TrueTag)
          /\ events[1].content.b64
          /\ events[1].content.key # last[1].args.config.encryption_key[1]

(* C21: retrieving an item that was published encrypted, with a config     *)
(* whose encryption key differs from the publishing key, returns Ok (the   *)
(* address list) unless the relays failed to answer.                       *)
C21_WrongKeyStillWorks ==
    WrongKeyRetrieve => (last[1].result.ok \/ last[1].result.err \in {"Timeout", "NostrRelay"})

---------------------------------------------------------------------------
(* The text is 64 hexadecimal characters *)
IsKeyText(s) == Len(s) = 64 /\ \A i \in 1..Len(s) : s[i] \in HexDigits

(* C22: set_encryption_key_from_hex(s) returns Ok and sets the key to the  *)
(* 32 bytes s writes exactly when s is 64 hexadecimal characters; for any  *)
(* other s it returns InvalidEncryptionKey and leaves the key and every    *)
(* other config field as they were.                                        *)
C22_KeyFromHex ==
    (called # None /\ called[1].op = "set_encryption_key_from_hex") =>
        LET s == called[1].args[1] IN
        IF IsKeyText(s)
        THEN /\ called[1].result.ok
             /\ cfg.encryption_key # None
             /\ Len(cfg.encryption_key[1]) = 32
             /\ \A i \in 1..32 :
                   cfg.encryption_key[1][i] = 16 * HexVal(s[2 * i - 1]) + HexVal(s[2 * i])
             /\ cfg = [called[1].before EXCEPT !.encryption_key = cfg.encryption_key]
        ELSE /\ called[1].result = Err("InvalidEncryptionKey")
             /\ cfg = called[1].before

C22_Witness ==
    /\ called # None /\ called[1].op = "set_encryption_key_from_hex"
    /\ ~IsKeyText(called[1].args[1])
    /\ Len(called[1].args[1]) = 64
    /\ called[1].before.encryption_key # None
    /\ cfg.encryption_key = called[1].before.encryption_key

---------------------------------------------------------------------------
(* C23: add_custom_relay(u) appends u to the endpoint list in effect:      *)
(* get_relay_urls() after the call is get_relay_urls() before it followed  *)
(* by u, the built-in list plus u on a config with no custom list; and     *)
(* after use_default_relays() get_relay_urls() is the built-in list.       *)
C23_AddRelayAppends ==
    /\ (called # None /\ called[1].op = "add_custom_relay") =>
          get_relay_urls(cfg) = Append(get_relay_urls(called[1].before), called[1].args[1])
    /\ (called # None /\ called[1].op = "use_default_relays") =>
          get_relay_urls(cfg) = default_public_relays

---------------------------------------------------------------------------
(* The families an enable/disable call names, and the flag it gives them *)
EnableOps ==
    {"set_address_type_enabled", "enable_bitcoin_l1", "disable_bitcoin_l1",
     "enable_all_address_types", "disable_all_address_types"}
CountOps == {"set_address_count", "set_bitcoin_l1_counts", "set_all_counts"}
NamedFamilies(call) ==
    CASE call.op = "set_address_type_enabled" -> {call.args[1]}
      [] call.op \in {"enable_bitcoin_l1", "disable_bitcoin_l1"} ->
            {"P2PKH", "P2SH", "P2WPKH", "P2TR"}
      [] call.op \in {"enable_all_address_types", "disable_all_address_types"} ->
            {"P2PKH", "P2SH", "P2WPKH", "P2TR", "Liquid", "Lightning", "Nostr"}
      [] OTHER -> {}
NamedFlag(call) ==
    CASE call.op = "set_address_type_enabled" -> call.args[2]
      [] call.op \in {"enable_bitcoin_l1", "enable_all_address_types"} -> TRUE
      [] OTHER -> FALSE
Listed(seq, t) == \E i \in 1..Len(seq) : seq[i] = t

(* C24: get_enabled_address_types() lists, in the fixed order P2PKH, P2SH, *)
(* P2WPKH, P2TR, Liquid, Lightning, Nostr and each once, exactly the       *)
(* families that the most recent enable/disable call naming them enabled,  *)
(* or that no call has named: all seven on a fresh config, and after each  *)
(* call the families it enabled plus those listed before that it did not   *)
(* name.                                                                   *)
C24_EnabledListIsLatestFlags ==
    LET wanted(t) ==
            IF called = None THEN TRUE
            ELSE IF t \in NamedFamilies(called[1]) THEN NamedFlag(called[1])
            ELSE Listed(get_enabled_address_types(called[1].before), t)
    IN get_enabled_address_types(cfg) =
           SelectSeq(<<"P2PKH", "P2SH", "P2WPKH", "P2TR", "Liquid", "Lightning", "Nostr">>, wanted)

C24_Witness ==
    /\ called # None /\ called[1].op = "set_address_type_enabled"
    /\ called[1].args = <<"Liquid", TRUE>>
    /\ get_enabled_address_types(called[1].before) = <<>>
    /\ get_enabled_address_types(cfg) = <<"Liquid">>

(* C25: an enable/disable call changes the enabled flag of no family it    *)
(* does not name and the address count of no family at all; a count        *)
(* setter changes no enabled flag.                                         *)
C25_FlagsAndCountsApart ==
    called # None =>
        /\ called[1].op \in EnableOps =>
              /\ \A t \in AddressTypes \ NamedFamilies(called[1]) :
                    is_address_type_enabled(cfg, t) = is_address_type_enabled(called[1].before, t)
              /\ \A t \in AddressTypes :
                    get_address_count(cfg, t) = get_address_count(called[1].before, t)
        /\ called[1].op \in CountOps =>
              \A t \in AddressTypes :
                  is_address_type_enabled(cfg, t) = is_address_type_enabled(called[1].before, t)

C25_Witness ==
    /\ called # None /\ called[1].op = "disable_bitcoin_l1"
    /\ get_address_count(called[1].before, "P2PKH") = 2
    /\ get_address_count(cfg, "P2PKH") = 2
    /\ ~is_address_type_enabled(cfg, "P2PKH")
    /\ is_address_type_enabled(cfg, "Liquid")

---------------------------------------------------------------------------
(* The collections the call that just returned was handed or derived *)
CollectionsOf(r) ==
    {r.addresses}
        \cup (IF r.op = "update_uba_with_addresses" /\ "updated_addresses" \in DOMAIN r.args
              THEN {r.args.updated_addresses} ELSE {})

(* C26: for every collection, is_empty() is true exactly when no family    *)
(* has any address, that is exactly when len() = 0; and len() is the sum   *)
(* of the per-family list lengths and the number of entries of             *)
(* get_all_addresses().                                                    *)
C26_EmptyIffNoAddress ==
    last # None =>
        \A a \in CollectionsOf(last[1]) :
            /\ is_empty(a) <=> (\A t \in DOMAIN a.addresses : a.addresses[t] = <<>>)
            /\ is_empty(a) <=> (len(a) = 0)
            /\ len(a) = Cardinality(get_all_addresses(a))

---------------------------------------------------------------------------
(* C27: metadata.derivation_paths of a derived collection lists exactly    *)
(* the paths used for it: one path per family that has addresses in the    *)
(* result and no path of a family without any; xpub is never populated.    *)
C27_PathsActuallyUsed ==
    (gen # None /\ gen[1].res.ok) =>
        LET a == gen[1].res.val[1]
            paths == a.metadata[1].derivation_paths[1]
            used == {t \in DOMAIN a.addresses : a.addresses[t] # <<>>}
        IN /\ {paths[i] : i \in 1..Len(paths)} = {PathOf(t) : t \in used}
           /\ Len(paths) = Cardinality(used)
           /\ a.metadata[1].xpub = None

---------------------------------------------------------------------------
(* The accepted requests of the identifier of call k that were made before *)
(* call k and less than a window before it                                 *)
AcceptedBefore(log, k, window) ==
    {j \in 1..(k - 1) : /\ log[j].op = "is_allowed" /\ log[j].ok
                        /\ log[j].identifier = log[k].identifier
                        /\ log[k].time - log[j].time < window}

(* C28: each identifier has at most max_requests accepted requests within  *)
(* any span shorter than the window; a request is accepted exactly when    *)
(* fewer than max_requests requests of the same identifier were accepted   *)
(* less than a window before it, so rejected requests, other identifiers'  *)
(* requests and cleanup calls have no part in the decision; a rejection is *)
(* the error RateLimit.                                                    *)
C28_RateLimiterWindow ==
    limiter # None =>
        LET log == limiter[1].log
            max == limiter[1].rl.max_requests
            w == limiter[1].rl.window
        IN \A k \in 1..Len(log) :
               log[k].op = "is_allowed" =>
                   /\ log[k].ok <=> Cardinality(AcceptedBefore(log, k, w)) < max
                   /\ log[k].ok => Cardinality(AcceptedBefore(log, k, w)) + 1 <= max
                   /\ ~log[k].ok => log[k].result = Err("RateLimit")

(* A request is accepted after one of the same identifier was rejected and *)
(* a cleanup ran, while another identifier kept sending                    *)
C28_Witness ==
    /\ limiter # None
    /\ \E i, j, k, m \in 1..Len(limiter[1].log) :
          /\ i < j /\ j < k
          /\ limiter[1].log[i].op = "is_allowed" /\ ~limiter[1].log[i].ok
          /\ limiter[1].log[j].op = "cleanup"
          /\ limiter[1].log[k].op = "is_allowed" /\ limiter[1].log[k].ok
          /\ limiter[1].log[k].identifier = limiter[1].log[i].identifier
          /\ limiter[1].log[m].op = "is_allowed"
          /\ limiter[1].log[m].identifier # limiter[1].log[i].identifier

---------------------------------------------------------------------------
(* The call that just returned had connected: connect_to_relays returned   *)
(* Ok and the call went on to talk to the relays                           *)
HadConnected == last # None /\ Len(last[1].net) >= 2 /\ last[1].net[1] = "connect"

(* C29: every call that has connected to the relays disconnects from them  *)
(* before it returns, on the success path and on every error path: the     *)
(* last thing it did on the network is disconnect.                         *)
C29_DisconnectBeforeReturn ==
    HadConnected => last[1].net[Len(last[1].net)] = "disconnect"

---------------------------------------------------------------------------
(* C30: parse_uba and parse_uba_internal agree on every input string:      *)
(* both return InvalidUbaFormat, or both succeed with the same identifier  *)
(* and the same label.                                                     *)
C30_ParsersAgree ==
    (parsed # None /\ parsed[1].kind = "parse") => parsed[1].wasm = parsed[1].res

====
